---- MODULE Spec2Model ----
(***************************************************************************)
(* The ML analysis service of Edital-IA: the EditalAnalyzer facade         *)
(* (src/ml_service/models.py), its settings (src/ml_service/config.py)     *)
(* and the /analyze handler (src/ml_service/main.py).                      *)
(*                                                                         *)
(* Library calls (re, dateparser, spaCy, redis, md5) are not part of the   *)
(* repository.  A text is therefore represented by what those libraries    *)
(* answer on it (the capture of each regular expression, the keywords its  *)
(* lower-cased form contains, the spans the language model tags); the      *)
(* code around those calls (pattern order, filters, normalisation,         *)
(* parsing, serialisation, cache protocol) is modelled as written.         *)
(* Strings the code inspects character by character are sequences of       *)
(* one-character strings.                                                  *)
(***************************************************************************)
EXTENDS Integers, Sequences, FiniteSets, Bags, TLC

(***************************************************************************)
(* Python values, tagged by type.                                          *)
(***************************************************************************)
PyNone == [t |-> "None"]
PyStr(s) == [t |-> "str", s |-> s]
PyDecimal(s) == [t |-> "Decimal", s |-> s]
PyDatetime(y, m, d) == [t |-> "datetime", y |-> y, m |-> m, d |-> d]
PyFloat(s) == [t |-> "float", s |-> s]
PyInt(n) == [t |-> "int", n |-> n]
PyBool(b) == [t |-> "bool", b |-> b]

\* re.search found nothing for a pattern.
NoMatch == [t |-> "NoMatch"]

\* text.head: for a text longer than MAX_TEXT_LENGTH, what the patterns and
\* tables find in its first MAX_TEXT_LENGTH characters.
NoHead == [t |-> "NoHead"]

DigitChars == <<"0", "1", "2", "3", "4", "5", "6", "7", "8", "9">>
Digits == {DigitChars[i] : i \in DOMAIN DigitChars}
DigitChar(n) == DigitChars[n + 1]
Pad2(n) == <<DigitChar((n \div 10) % 10), DigitChar(n % 10)>>
Pad4(n) == Pad2(n \div 100) \o Pad2(n % 100)

\* str(v) for the two header types json cannot serialise: str(Decimal) is its
\* literal, str(datetime) is "YYYY-MM-DD 00:00:00" (the patterns capture no time).
PyStrOf(v) ==
  IF v.t = "Decimal" THEN v.s
  ELSE IF v.t = "datetime"
       THEN Pad4(v.y) \o <<"-">> \o Pad2(v.m) \o <<"-">> \o Pad2(v.d)
            \o <<" ", "0", "0", ":", "0", "0", ":", "0", "0">>
       ELSE v.s

(***************************************************************************)
(* str.strip(), str.replace() on character sequences.                      *)
(***************************************************************************)
IsSpace(c) == c \in {" ", "\n", "\t"}

RECURSIVE LStrip(_)
LStrip(s) == IF s # <<>> /\ IsSpace(Head(s)) THEN LStrip(Tail(s)) ELSE s

RECURSIVE RStrip(_)
RStrip(s) ==
  IF s # <<>> /\ IsSpace(s[Len(s)]) THEN RStrip(SubSeq(s, 1, Len(s) - 1)) ELSE s

Strip(s) == RStrip(LStrip(s))

RemoveChar(s, c) == SelectSeq(s, LAMBDA ch : ch # c)
ReplaceChar(s, a, b) == [i \in DOMAIN s |-> IF s[i] = a THEN b ELSE s[i]]

(***************************************************************************)
(* decimal.Decimal(value_str) for strings over digits, "." and ",".        *)
(***************************************************************************)
CountChar(s, c) == Len(SelectSeq(s, LAMBDA ch : ch = c))

DecimalParses(s) ==
  /\ \A i \in DOMAIN s : s[i] \in Digits \cup {"."}
  /\ CountChar(s, ".") <= 1
  /\ \E i \in DOMAIN s : s[i] \in Digits

RECURSIVE DropLeadingZeros(_)
DropLeadingZeros(s) ==
  IF Len(s) > 1 /\ Head(s) = "0" THEN DropLeadingZeros(Tail(s)) ELSE s

DotIndex(s) == IF \E i \in DOMAIN s : s[i] = "."
               THEN CHOOSE i \in DOMAIN s : s[i] = "."
               ELSE Len(s) + 1

\* The Decimal a valid literal denotes, written as str() prints it: the
\* integer part without leading zeros ("0" when empty), the fraction digits kept.
DecimalOf(s) ==
  LET k == DotIndex(s)
      ip == SubSeq(s, 1, k - 1)
      fp == SubSeq(s, k + 1, Len(s))
      int == IF ip = <<>> THEN <<"0">> ELSE DropLeadingZeros(ip)
  IN PyDecimal(IF fp = <<>> THEN int ELSE int \o <<".">> \o fp)

(***************************************************************************)
(* Settings (config.py).  CACHE_TTL is in seconds; the clock of the model  *)
(* advances by TickSeconds.                                                *)
(***************************************************************************)
CACHE_TTL == 3600
MAX_TEXT_LENGTH == 1000000

\* Clock ticks per time-to-live.
TicksPerTtl == 2
TickSeconds == CACHE_TTL \div TicksPerTtl

(***************************************************************************)
(* Pattern and vocabulary tables, in declared (dict insertion) order.      *)
(***************************************************************************)
\* _load_patterns: the number of regular expressions listed per key.
load_patterns ==
  [numero_processo |-> 3, cnpj |-> 1, valor_estimado |-> 3,
   data_abertura |-> 2, data_sessao |-> 2]

\* The pattern lists local to _extract_organizacao and _extract_objeto_licitacao.
OrganizacaoPatterns == 4
ObjetoPatterns == 3

modalities ==
  << <<"pregão eletrônico", "Pregão Eletrônico">>,
     <<"pregão presencial", "Pregão Presencial">>,
     <<"concorrência", "Concorrência">>,
     <<"tomada de preços", "Tomada de Preços">>,
     <<"convite", "Convite">>,
     <<"concurso", "Concurso">>,
     <<"leilão", "Leilão">> >>

criteria ==
  << <<"menor preço", "Menor Preço">>,
     <<"técnica e preço", "Técnica e Preço">>,
     <<"melhor técnica", "Melhor Técnica">>,
     <<"maior desconto", "Maior Desconto">> >>

load_document_types ==
  << <<"contrato social", "CONTRATO_SOCIAL">>,
     <<"ato constitutivo", "CONTRATO_SOCIAL">>,
     <<"estatuto social", "CONTRATO_SOCIAL">>,
     <<"certidão negativa de débitos federais", "CND_FEDERAL">>,
     <<"cnd federal", "CND_FEDERAL">>,
     <<"certidão conjunta", "CND_FEDERAL">>,
     <<"certidão negativa de débitos estaduais", "CND_ESTADUAL">>,
     <<"certidão negativa de débitos municipais", "CND_MUNICIPAL">>,
     <<"certidão de regularidade do fgts", "CERTIDAO_FGTS">>,
     <<"crf", "CERTIDAO_FGTS">>,
     <<"certidão negativa de débitos trabalhistas", "CERTIDAO_TRABALHISTA">>,
     <<"cndt", "CERTIDAO_TRABALHISTA">>,
     <<"alvará de funcionamento", "ALVARA_FUNCIONAMENTO">>,
     <<"licença de funcionamento", "ALVARA_FUNCIONAMENTO">>,
     <<"atestado de capacidade técnica", "ATESTADO_CAPACIDADE_TECNICA">>,
     <<"comprovação de aptidão", "ATESTADO_CAPACIDADE_TECNICA">>,
     <<"balanço patrimonial", "BALANCO_PATRIMONIAL">>,
     <<"demonstração de resultados", "DEMONSTRACAO_RESULTADOS">>,
     <<"dre", "DEMONSTRACAO_RESULTADOS">>,
     <<"certidão de falência", "CERTIDAO_FALENCIA">> >>

\* The keys of document_types_mapping character by character, in the order
\* of load_document_types.
DocumentTypePhrases ==
  << <<"c", "o", "n", "t", "r", "a", "t", "o", " ", "s", "o", "c", "i",
       "a", "l">>,
     <<"a", "t", "o", " ", "c", "o", "n", "s", "t", "i", "t", "u", "t",
       "i", "v", "o">>,
     <<"e", "s", "t", "a", "t", "u", "t", "o", " ", "s", "o", "c", "i",
       "a", "l">>,
     <<"c", "e", "r", "t", "i", "d", "ã", "o", " ", "n", "e", "g", "a",
       "t", "i", "v", "a", " ", "d", "e", " ", "d", "é", "b", "i", "t",
       "o", "s", " ", "f", "e", "d", "e", "r", "a", "i", "s">>,
     <<"c", "n", "d", " ", "f", "e", "d", "e", "r", "a", "l">>,
     <<"c", "e", "r", "t", "i", "d", "ã", "o", " ", "c", "o", "n", "j",
       "u", "n", "t", "a">>,
     <<"c", "e", "r", "t", "i", "d", "ã", "o", " ", "n", "e", "g", "a",
       "t", "i", "v", "a", " ", "d", "e", " ", "d", "é", "b", "i", "t",
       "o", "s", " ", "e", "s", "t", "a", "d", "u", "a", "i", "s">>,
     <<"c", "e", "r", "t", "i", "d", "ã", "o", " ", "n", "e", "g", "a",
       "t", "i", "v", "a", " ", "d", "e", " ", "d", "é", "b", "i", "t",
       "o", "s", " ", "m", "u", "n", "i", "c", "i", "p", "a", "i", "s">>,
     <<"c", "e", "r", "t", "i", "d", "ã", "o", " ", "d", "e", " ", "r",
       "e", "g", "u", "l", "a", "r", "i", "d", "a", "d", "e", " ", "d",
       "o", " ", "f", "g", "t", "s">>,
     <<"c", "r", "f">>,
     <<"c", "e", "r", "t", "i", "d", "ã", "o", " ", "n", "e", "g", "a",
       "t", "i", "v", "a", " ", "d", "e", " ", "d", "é", "b", "i", "t",
       "o", "s", " ", "t", "r", "a", "b", "a", "l", "h", "i", "s", "t",
       "a", "s">>,
     <<"c", "n", "d", "t">>,
     <<"a", "l", "v", "a", "r", "á", " ", "d", "e", " ", "f", "u", "n",
       "c", "i", "o", "n", "a", "m", "e", "n", "t", "o">>,
     <<"l", "i", "c", "e", "n", "ç", "a", " ", "d", "e", " ", "f", "u",
       "n", "c", "i", "o", "n", "a", "m", "e", "n", "t", "o">>,
     <<"a", "t", "e", "s", "t", "a", "d", "o", " ", "d", "e", " ", "c",
       "a", "p", "a", "c", "i", "d", "a", "d", "e", " ", "t", "é", "c",
       "n", "i", "c", "a">>,
     <<"c", "o", "m", "p", "r", "o", "v", "a", "ç", "ã", "o", " ", "d",
       "e", " ", "a", "p", "t", "i", "d", "ã", "o">>,
     <<"b", "a", "l", "a", "n", "ç", "o", " ", "p", "a", "t", "r", "i",
       "m", "o", "n", "i", "a", "l">>,
     <<"d", "e", "m", "o", "n", "s", "t", "r", "a", "ç", "ã", "o", " ",
       "d", "e", " ", "r", "e", "s", "u", "l", "t", "a", "d", "o", "s">>,
     <<"d", "r", "e">>,
     <<"c", "e", "r", "t", "i", "d", "ã", "o", " ", "d", "e", " ", "f",
       "a", "l", "ê", "n", "c", "i", "a">> >>

\* The (regex, requirement type) pairs of _extract_requirements.
requirement_patterns ==
  <<"DOCUMENTO_EXIGIDO", "CERTIDAO", "COMPROVANTE", "DECLARACAO", "ATESTADO">>

StopWords == {<<"d", "e">>, <<"d", "a">>, <<"d", "o">>,
              <<"d", "a", "s">>, <<"d", "o", "s">>}

\* The labels _extract_entities keeps, and those the entity ruler assigns.
EntityAllowList == {"PERSON", "ORG", "GPE", "MONEY", "DATE"}
RulerLabels == {"MODALIDADE", "CRITERIO"}

\* The smallest index in 1..n satisfying P, 0 when none does: a for loop
\* that returns at the first success.
FirstWhere(n, P(_)) ==
  IF \E i \in 1..n : P(i)
  THEN CHOOSE i \in 1..n : P(i) /\ \A j \in 1..(i - 1) : ~P(j)
  ELSE 0

(***************************************************************************)
(* Field extractors.  text.<field>[i] is group(1) of the i-th pattern's    *)
(* first match in the text, or NoMatch.                                    *)
(***************************************************************************)
\* The pattern list walked from its end: the last acceptable capture wins.
extract_organizacao_last(text) ==
  LET ok(i) == /\ text.organizacao[i] # NoMatch
               /\ Len(Strip(text.organizacao[i].s)) > 3
      S == {i \in 1..OrganizacaoPatterns : ok(i)}
  IN IF S = {} THEN PyNone
     ELSE PyStr(Strip(text.organizacao[CHOOSE i \in S : \A j \in S : j <= i].s))

extract_organizacao(text) ==
  LET ok(i) == /\ text.organizacao[i] # NoMatch
               /\ Len(Strip(text.organizacao[i].s)) > 3
      i == FirstWhere(OrganizacaoPatterns, ok)
  IN IF i = 0 THEN PyNone ELSE PyStr(Strip(text.organizacao[i].s))

\* The modality whose keyword occurs leftmost in the text.
extract_modalidade_leftmost(text) ==
  LET keys == {modalities[i][1] : i \in DOMAIN modalities}
      found == SelectSeq(text.lower_order, LAMBDA k : k \in keys)
  IN IF found = <<>> THEN PyNone
     ELSE PyStr(modalities[CHOOSE i \in DOMAIN modalities :
                             modalities[i][1] = Head(found)][2])

\* text.lower_contains: the keywords that are substrings of text.lower().
extract_modalidade(text) ==
  LET hit(i) == modalities[i][1] \in text.lower_contains
      i == FirstWhere(Len(modalities), hit)
  IN IF i = 0 THEN PyNone ELSE PyStr(modalities[i][2])

extract_numero_processo(text) ==
  LET hit(i) == text.numero_processo[i] # NoMatch
      i == FirstWhere(load_patterns.numero_processo, hit)
  IN IF i = 0 THEN PyNone ELSE PyStr(text.numero_processo[i].s)

\* dateparser.parse(date_str, languages=['pt']) on a captured d/m/y token:
\* a datetime at midnight for a calendar date, None otherwise.  A token
\* flagged `raises` is one on which the parser throws instead of answering.
DaysIn(m, y) ==
  IF m \in {4, 6, 9, 11} THEN 30
  ELSE IF m = 2
       THEN (IF y % 4 = 0 /\ (y % 100 # 0 \/ y % 400 = 0) THEN 29 ELSE 28)
       ELSE 31

dateparser_parse(tok) ==
  IF tok.m \in 1..12 /\ tok.d \in 1..DaysIn(tok.m, tok.y)
  THEN PyDatetime(tok.y, tok.m, tok.d)
  ELSE PyNone

dateparser_raises(tok) == tok.raises

\* The loop of a date extractor stops at the first pattern whose token the
\* parser does not answer None for: it returns the datetime, or the parser's
\* exception leaves the extractor.
DateStop(caps, n) ==
  LET stop(i) == /\ caps[i] # NoMatch
                 /\ (dateparser_raises(caps[i]) \/ dateparser_parse(caps[i]) # PyNone)
  IN FirstWhere(n, stop)

DateRaises(caps, n) ==
  DateStop(caps, n) # 0 /\ dateparser_raises(caps[DateStop(caps, n)])

DateValue(caps, n) ==
  IF DateStop(caps, n) = 0 THEN PyNone ELSE dateparser_parse(caps[DateStop(caps, n)])

extract_data_abertura(text) == DateValue(text.data_abertura, load_patterns.data_abertura)
extract_data_sessao(text) == DateValue(text.data_sessao, load_patterns.data_sessao)

extract_objeto_licitacao(text) ==
  LET ok(i) == /\ text.objeto[i] # NoMatch
               /\ Len(Strip(text.objeto[i].s)) > 10
      i == FirstWhere(ObjetoPatterns, ok)
  IN IF i = 0 THEN PyNone ELSE PyStr(Strip(text.objeto[i].s))

\* The table's first criterion as the answer when no keyword is found.
extract_criterio_default(text) ==
  LET hit(i) == criteria[i][1] \in text.lower_contains
      i == FirstWhere(Len(criteria), hit)
  IN IF i = 0 THEN PyStr(criteria[1][2]) ELSE PyStr(criteria[i][2])

extract_criterio_julgamento(text) ==
  LET hit(i) == criteria[i][1] \in text.lower_contains
      i == FirstWhere(Len(criteria), hit)
  IN IF i = 0 THEN PyNone ELSE PyStr(criteria[i][2])

\* The decimal comma turned into a point, the thousands separators left in.
NormalizeValorCommaOnly(s) == ReplaceChar(s, ",", ".")

\* value_str.replace(".", "").replace(",", ".")
NormalizeValor(s) == ReplaceChar(RemoveChar(s, "."), ",", ".")

\* The loop left with None at the first matching pattern whose numeral does
\* not parse.
extract_valor_estimado_no_retry(text) ==
  LET hit(i) == text.valor_estimado[i] # NoMatch
      i == FirstWhere(load_patterns.valor_estimado, hit)
  IN IF i = 0 \/ ~DecimalParses(NormalizeValor(text.valor_estimado[i].s)) THEN PyNone
     ELSE DecimalOf(NormalizeValor(text.valor_estimado[i].s))

extract_valor_estimado(text) ==
  LET ok(i) == /\ text.valor_estimado[i] # NoMatch
               /\ DecimalParses(NormalizeValor(text.valor_estimado[i].s))
      i == FirstWhere(load_patterns.valor_estimado, ok)
  IN IF i = 0 THEN PyNone ELSE DecimalOf(NormalizeValor(text.valor_estimado[i].s))

\* _extract_basic_info has no handler of its own: an exception of one of
\* its extractors is its exception.
BasicInfoRaises(text) ==
  \/ DateRaises(text.data_abertura, load_patterns.data_abertura)
  \/ DateRaises(text.data_sessao, load_patterns.data_sessao)

extract_basic_info(text) ==
  [organizacao_licitante |-> extract_organizacao(text),
   modalidade_licitacao |-> extract_modalidade(text),
   numero_processo |-> extract_numero_processo(text),
   data_abertura_propostas |-> extract_data_abertura(text),
   data_sessao_publica |-> extract_data_sessao(text),
   objeto_licitacao |-> extract_objeto_licitacao(text),
   criterio_julgamento |-> extract_criterio_julgamento(text),
   valor_estimado |-> extract_valor_estimado(text)]

HeaderFields ==
  {"organizacao_licitante", "modalidade_licitacao", "numero_processo",
   "data_abertura_propostas", "data_sessao_publica", "objeto_licitacao",
   "criterio_julgamento", "valor_estimado"}

(***************************************************************************)
(* Entity recognition.  text.ents: the spans doc.ents holds when the       *)
(* pipeline (entity ruler before ner) runs on the text, in document order. *)
(* nlp is "None", "model" (loaded, no ruler yet) or "ruled".               *)
(***************************************************************************)
\* text[:n], with the spans that end inside the prefix.
Prefix(text, n) ==
  IF text.length > n
  THEN [(IF text.head = NoHead THEN text ELSE text.head) EXCEPT
          !.length = n,
          !.ents = SelectSeq(text.ents, LAMBDA e : e.end_char <= n)]
  ELSE text

\* doc.ents of self.nlp(text).
DocEnts(nlp, text) ==
  IF nlp = "ruled" THEN text.ents
  ELSE SelectSeq(text.ents, LAMBDA e : e.label \notin RulerLabels)

\* The dict with the two offsets taken from each other's attribute.
EntityDictSwapped(ent) ==
  [entity_type |-> PyStr(ent.label),
   entity_value |-> PyStr(ent.text),
   confidence |-> PyFloat("0.8"),
   start_position |-> PyInt(ent.end_char),
   end_position |-> PyInt(ent.start_char)]

EntityDict(ent) ==
  [entity_type |-> PyStr(ent.label),
   entity_value |-> PyStr(ent.text),
   confidence |-> PyFloat("0.8"),
   start_position |-> PyInt(ent.start_char),
   end_position |-> PyInt(ent.end_char)]

\* _extract_entities keeping the spans the entity ruler labels as well.
extract_entities_and_ruled(nlp, text) ==
  IF nlp = "None" THEN <<>>
  ELSE LET kept == SelectSeq(DocEnts(nlp, Prefix(text, MAX_TEXT_LENGTH)),
                             LAMBDA e : e.label \in EntityAllowList \cup RulerLabels)
       IN [i \in DOMAIN kept |-> EntityDict(kept[i])]

\* _extract_entities when the model call answers.
extract_entities(nlp, text) ==
  IF nlp = "None" THEN <<>>
  ELSE LET kept == SelectSeq(DocEnts(nlp, Prefix(text, MAX_TEXT_LENGTH)),
                             LAMBDA e : e.label \in EntityAllowList)
       IN [i \in DOMAIN kept |-> EntityDict(kept[i])]

(***************************************************************************)
(* Requirements.  text.reqs[p]: the captures of the p-th requirement       *)
(* pattern's matches, in order; a capture holds its characters and the     *)
(* vocabulary phrases its lower-cased, stripped form contains.             *)
(***************************************************************************)
\* The longest vocabulary phrase found decides, the earlier one on a tie.
map_to_document_type_longest(vocab) ==
  LET hits == {i \in DOMAIN load_document_types : load_document_types[i][1] \in vocab}
      best == {i \in hits : \A j \in hits :
                 \/ Len(DocumentTypePhrases[j]) < Len(DocumentTypePhrases[i])
                 \/ (Len(DocumentTypePhrases[j]) = Len(DocumentTypePhrases[i]) /\ i <= j)}
  IN IF hits = {} THEN PyNone
     ELSE PyStr(load_document_types[CHOOSE i \in best : TRUE][2])

map_to_document_type(vocab) ==
  LET hit(i) == load_document_types[i][1] \in vocab
      i == FirstWhere(Len(load_document_types), hit)
  IN IF i = 0 THEN PyNone ELSE PyStr(load_document_types[i][2])

\* str.lower(), character by character.
UpperChars == <<"A", "B", "C", "D", "E", "F", "G", "H", "I", "J", "K", "L", "M",
                "N", "O", "P", "Q", "R", "S", "T", "U", "V", "W", "X", "Y", "Z",
                "Ã", "Á", "É", "Ç", "Õ", "Ê", "Í", "Ó", "Ú", "Â", "Ô", "À">>
LowerChars == <<"a", "b", "c", "d", "e", "f", "g", "h", "i", "j", "k", "l", "m",
                "n", "o", "p", "q", "r", "s", "t", "u", "v", "w", "x", "y", "z",
                "ã", "á", "é", "ç", "õ", "ê", "í", "ó", "ú", "â", "ô", "à">>
LowerOf ==
  [c \in {UpperChars[i] : i \in DOMAIN UpperChars} |->
     LowerChars[CHOOSE i \in DOMAIN UpperChars : UpperChars[i] = c]]
LowerChar(c) == IF c \in DOMAIN LowerOf THEN LowerOf[c] ELSE c
Lower(s) == [i \in DOMAIN s |-> LowerChar(s[i])]

RequirementKept(cap) ==
  ~(Len(Strip(cap.s)) < 5 \/ Lower(Strip(cap.s)) \in StopWords)

\* The dict with the flag set only for a recognised document type.
RequirementDictTyped(req_type, cap) ==
  [requirement_type |-> PyStr(req_type),
   description |-> PyStr(Strip(cap.s)),
   document_type |-> map_to_document_type(cap.vocab),
   is_mandatory |-> PyBool(map_to_document_type(cap.vocab) # PyNone)]

RequirementDict(req_type, cap) ==
  [requirement_type |-> PyStr(req_type),
   description |-> PyStr(Strip(cap.s)),
   document_type |-> map_to_document_type(cap.vocab),
   is_mandatory |-> PyBool(TRUE)]

RECURSIVE RequirementsFrom(_, _)
RequirementsFrom(text, p) ==
  IF p > Len(requirement_patterns) THEN <<>>
  ELSE LET kept == SelectSeq(text.reqs[p], RequirementKept)
       IN [i \in DOMAIN kept |-> RequirementDict(requirement_patterns[p], kept[i])]
          \o RequirementsFrom(text, p + 1)

extract_requirements(text) == RequirementsFrom(text, 1)

\* The result dict of a text cut to MAX_TEXT_LENGTH before any processing.
AnalysisResultOfPrefix(nlp, text) ==
  [analysis |-> extract_basic_info(Prefix(text, MAX_TEXT_LENGTH)),
   entities |-> extract_entities(nlp, Prefix(text, MAX_TEXT_LENGTH)),
   requirements |-> extract_requirements(Prefix(text, MAX_TEXT_LENGTH))]

\* The result dict analyze_text assembles.
AnalysisResult(nlp, text) ==
  [analysis |-> extract_basic_info(text),
   entities |-> extract_entities(nlp, text),
   requirements |-> extract_requirements(text)]

(***************************************************************************)
(* json.dumps(result, default=str) and json.loads.  A JSON document keeps  *)
(* the dict/list structure; its leaves are JSON's own types.  A value json *)
(* cannot serialise (Decimal, datetime) goes through default=str and is    *)
(* written as a JSON string.                                               *)
(***************************************************************************)
JsonDumpLeaf(v) ==
  IF v.t = "None" THEN [j |-> "null"]
  ELSE IF v.t = "str" THEN [j |-> "string", s |-> v.s]
  ELSE IF v.t = "float" THEN [j |-> "real", s |-> v.s]
  ELSE IF v.t = "int" THEN [j |-> "integer", n |-> v.n]
  ELSE IF v.t = "bool" THEN [j |-> "boolean", b |-> v.b]
  ELSE [j |-> "string", s |-> PyStrOf(v)]

JsonLoadLeaf(x) ==
  IF x.j = "null" THEN PyNone
  ELSE IF x.j = "string" THEN PyStr(x.s)
  ELSE IF x.j = "real" THEN PyFloat(x.s)
  ELSE IF x.j = "integer" THEN PyInt(x.n)
  ELSE PyBool(x.b)

MapDict(d, F(_)) == [k \in DOMAIN d |-> F(d[k])]
MapDicts(ds, F(_)) == [i \in DOMAIN ds |-> MapDict(ds[i], F)]

json_dumps(result) ==
  [analysis |-> MapDict(result.analysis, JsonDumpLeaf),
   entities |-> MapDicts(result.entities, JsonDumpLeaf),
   requirements |-> MapDicts(result.requirements, JsonDumpLeaf)]

json_loads(doc) ==
  [analysis |-> MapDict(doc.analysis, JsonLoadLeaf),
   entities |-> MapDicts(doc.entities, JsonLoadLeaf),
   requirements |-> MapDicts(doc.requirements, JsonLoadLeaf)]

(***************************************************************************)
(* The texts requests carry.  Captures are those the source's regular      *)
(* expressions yield on the text quoted above each definition.             *)
(***************************************************************************)
NoText(id, length, blank) ==
  [id |-> id, length |-> length, blank |-> blank,
   organizacao |-> <<NoMatch, NoMatch, NoMatch, NoMatch>>,
   lower_contains |-> {},
   lower_order |-> <<>>,
   numero_processo |-> <<NoMatch, NoMatch, NoMatch>>,
   data_abertura |-> <<NoMatch, NoMatch>>,
   data_sessao |-> <<NoMatch, NoMatch>>,
   objeto |-> <<NoMatch, NoMatch, NoMatch>>,
   valor_estimado |-> <<NoMatch, NoMatch, NoMatch>>,
   ents |-> <<>>,
   reqs |-> << <<>>, <<>>, <<>>, <<>>, <<>> >>,
   head |-> NoHead]

Capture(s) == [t |-> "str", s |-> s]
DateToken(d, m, y, raises) == [t |-> "date", d |-> d, m |-> m, y |-> y, raises |-> raises]
ReqCapture(s, vocab) == [s |-> s, vocab |-> vocab]
Span(label, txt, start_char, end_char) ==
  [label |-> label, text |-> txt, start_char |-> start_char, end_char |-> end_char]

\* ""
TextEmpty == NoText("empty", 0, TRUE)

\* "   "
TextBlank == NoText("blank", 3, TRUE)

\* "UNIVERSIDADE UFX\nProcesso nº 12/2024 - Pregão Eletrônico\n
\*  Abertura das propostas: 10/05/2024\nValor estimado: R$ 1.500,00\n
\*  Apresentar certidão conjunta;\n"
TextFull ==
  [NoText("full", 150, FALSE) EXCEPT
    !.organizacao = <<NoMatch, NoMatch,
       Capture(<<"U", "N", "I", "V", "E", "R", "S", "I", "D", "A", "D", "E", " ",
                 "U", "F", "X", "\n", "P", "r", "o", "c", "e", "s", "s", "o", " ", "n">>),
       NoMatch>>,
    !.lower_contains = {"pregão eletrônico"},
    !.lower_order = <<"pregão eletrônico">>,
    !.numero_processo = <<Capture(<<"1", "2", "/", "2", "0", "2", "4">>), NoMatch, NoMatch>>,
    !.data_abertura = <<DateToken(10, 5, 2024, FALSE), NoMatch>>,
    !.valor_estimado = <<Capture(<<"1", ".", "5", "0", "0", ",", "0", "0">>), NoMatch, NoMatch>>,
    !.ents = <<Span("ORG", "UNIVERSIDADE UFX", 0, 16),
               Span("MODALIDADE", "Pregão Eletrônico", 39, 56),
               Span("MISC", "R$ 1.500,00", 108, 119)>>,
    !.reqs = << <<ReqCapture(<<"c", "e", "r", "t", "i", "d", "ã", "o", " ",
                               "c", "o", "n", "j", "u", "n", "t", "a">>,
                             {"certidão conjunta"})>>,
                <<ReqCapture(<<"c", "o", "n", "j", "u", "n", "t", "a">>, {})>>,
                <<>>, <<>>, <<>> >>]

\* "Edital nº 7/2025\nSessão pública: 99/99/9999\n"; the date parser throws
\* on the session token.
TextBadDate ==
  [NoText("baddate", 44, FALSE) EXCEPT
    !.numero_processo = <<NoMatch, Capture(<<"7", "/", "2", "0", "2", "5">>), NoMatch>>,
    !.data_sessao = <<DateToken(99, 99, 9999, TRUE), NoMatch>>]

Texts == {TextEmpty, TextBlank, TextFull, TextBadDate}
TextIds == {tx.id : tx \in Texts}

\* A text of MAX_TEXT_LENGTH + 99 characters:
\* "UNIVERSIDADE UFX\nProcesso nº 12/2024 - Pregão Eletrônico\n", blanks,
\* "Data: 10/05/2024" up to character MAX_TEXT_LENGTH, and then
\* "     Ana Lima\nValor estimado: R$ 80.000,00\nJulgamento: menor preço\n
\*  Apresentar balanço patrimonial;\n".
TextLongHead ==
  [NoText("long[:MAX_TEXT_LENGTH]", MAX_TEXT_LENGTH, FALSE) EXCEPT
    !.organizacao = <<NoMatch, NoMatch,
       Capture(<<"U", "N", "I", "V", "E", "R", "S", "I", "D", "A", "D", "E", " ",
                 "U", "F", "X", "\n", "P", "r", "o", "c", "e", "s", "s", "o", " ", "n">>),
       NoMatch>>,
    !.lower_contains = {"pregão eletrônico"},
    !.lower_order = <<"pregão eletrônico">>,
    !.numero_processo = <<Capture(<<"1", "2", "/", "2", "0", "2", "4">>), NoMatch, NoMatch>>,
    !.ents = <<Span("ORG", "UNIVERSIDADE UFX", 0, 16),
               Span("MODALIDADE", "Pregão Eletrônico", 39, 56),
               Span("DATE", "10/05/2024", MAX_TEXT_LENGTH - 10, MAX_TEXT_LENGTH)>>]

TextLong ==
  [TextLongHead EXCEPT
    !.id = "long",
    !.length = MAX_TEXT_LENGTH + 99,
    !.lower_contains = {"pregão eletrônico", "menor preço"},
    !.lower_order = <<"pregão eletrônico", "menor preço">>,
    !.valor_estimado = <<Capture(<<"8", "0", ".", "0", "0", "0", ",", "0", "0">>),
                         NoMatch, NoMatch>>,
    !.ents = <<Span("ORG", "UNIVERSIDADE UFX", 0, 16),
               Span("MODALIDADE", "Pregão Eletrônico", 39, 56),
               Span("DATE", "10/05/2024", MAX_TEXT_LENGTH - 10, MAX_TEXT_LENGTH),
               Span("PERSON", "Ana Lima", MAX_TEXT_LENGTH + 5, MAX_TEXT_LENGTH + 13)>>,
    !.reqs = << <<ReqCapture(<<"b", "a", "l", "a", "n", "ç", "o", " ", "p", "a", "t",
                               "r", "i", "m", "o", "n", "i", "a", "l">>,
                             {"balanço patrimonial"})>>,
                <<>>, <<>>, <<>>, <<>> >>,
    !.head = TextLongHead]

LongTexts == {TextLong, TextLongHead}
\* The long text is the one requests carry; its first MAX_TEXT_LENGTH
\* characters are a text with a digest of their own.
LongIds == {TextLong.id}

Text(id) == CHOOSE tx \in Texts \cup LongTexts : tx.id = id

\* `not text` (main.py), and `not text.strip()`.
IsEmpty(text) == text.length = 0
IsBlank(text) == text.blank

(***************************************************************************)
(* State.                                                                  *)
(***************************************************************************)
VARIABLES
  settings,      \* config.settings: [ENABLE_CACHE]
  nlp,           \* analyzer.nlp: "None", "model" or "ruled"
  redis_client,  \* analyzer.redis_client: "None" or "client"
  startup,       \* the initialize() call: "pending", "ok" or "failed"
  cache,         \* the Redis keyspace: key -> NoEntry or an entry
  calls,         \* the /analyze requests being served: a bag of call records
  loop_blocked,  \* the event loop is inside a synchronous call that never returns
  probe,         \* the last direct call of a method of the analyzer, and its outcome
  database,      \* the backend's database: the edital row and the rows of its analysis
  tasks          \* the runs of process_edital_analysis: a bag of run records

vars == <<settings, nlp, redis_client, startup, cache, calls, loop_blocked, probe,
          database, tasks>>

\* Requests served at the same time.
NumCalls == 2

\* hashlib.md5(text.encode()).hexdigest(): one digest per text.
md5_hexdigest(text) == text.id
get_cache_key(text) == <<"analysis:", md5_hexdigest(text)>>
CacheKeys == {get_cache_key(tx) : tx \in Texts \cup LongTexts}

(***************************************************************************)
(* Redis.  An entry holds its value, whether it expires, and the seconds   *)
(* it has left to live (what TTL key reports).  An entry whose time is up  *)
(* stays in the map at ttl 0 and is dead to GET.                           *)
(***************************************************************************)
NoEntry == [t |-> "NoEntry"]

\* SETEX key seconds value, with the expiry lost (a plain SET).
RedisSetexNoExpiry(store, key, seconds, value) ==
  [store EXCEPT ![key] =
     [t |-> "entry", value |-> value, expires |-> FALSE, ttl |-> 0]]

\* SETEX key seconds value.
RedisSetex(store, key, seconds, value) ==
  [store EXCEPT ![key] =
     [t |-> "entry", value |-> value, expires |-> TRUE, ttl |-> seconds]]

\* GET key answers the value of a live entry, nil otherwise.
RedisLive(store, key) ==
  /\ store[key] # NoEntry
  /\ (~store[key].expires \/ store[key].ttl > 0)

\* The keyspace after `seconds` have passed.
RedisAge(store, seconds) ==
  [k \in DOMAIN store |->
     IF store[k] # NoEntry /\ store[k].expires
     THEN [store[k] EXCEPT !.ttl = IF @ > seconds THEN @ - seconds ELSE 0]
     ELSE store[k]]

NoValue == [t |-> "NoValue"]
NoResult == [t |-> "NoResult"]
NoReturn == [t |-> "none"]
NotCalled == [t |-> "not_called"]
Raise(exc) == [t |-> "raise", exc |-> exc]
\* A returned result, with the analyzer state it was returned in.
Return(value, via) ==
  [t |-> "return", value |-> value, via |-> via, nlp |-> nlp, startup |-> startup]

\* A request.  lookup, extracted, model and write record what its
\* analyze_text call has done so far; a GET answered nil is recorded as
\* "absent" (no entry) or "expired" (a dead one), which the code cannot tell
\* apart.
NewCall(id) ==
  [pc |-> "start", text |-> id, lookup |-> "none", got |-> NoValue,
   extracted |-> FALSE, model |-> "none", result |-> NoResult,
   write |-> "none", ret |-> NoReturn]

Calls == BagToSet(calls)
Replace(call, next) == (calls (-) SetToBag({call})) (+) SetToBag({next})

cache_enabled == settings.ENABLE_CACHE /\ redis_client # "None"

\* No method has been called directly.
NoProbe == [t |-> "none"]

\* The backend's database before any upload: no edital, no analysis rows.
NoEdital == [t |-> "NoEdital"]
EmptyDatabase ==
  [edital |-> NoEdital, edital_analyses |-> <<>>, extracted_entities |-> <<>>,
   habilitacao_requirements |-> <<>>]

\* The keyspace the service finds when it starts: empty, or holding what an
\* earlier run with caching on has just stored for a text.
EmptyKeyspace == [k \in CacheKeys |-> NoEntry]
LeftoverKeyspace ==
  RedisSetex(EmptyKeyspace, get_cache_key(TextFull), CACHE_TTL,
             json_dumps(AnalysisResult("ruled", TextFull)))

Init ==
  /\ settings \in [ENABLE_CACHE : BOOLEAN]
  /\ nlp = "None"
  /\ redis_client = "None"
  /\ startup = "pending"
  /\ cache \in {EmptyKeyspace, LeftoverKeyspace}
  /\ calls = EmptyBag
  /\ loop_blocked = FALSE
  /\ probe = NoProbe
  /\ database = EmptyDatabase
  /\ tasks = EmptyBag

(***************************************************************************)
(* initialize(): spacy.load, _add_custom_components, redis.from_url; the   *)
(* first failure is logged and re-raised, and what was assigned stays.     *)
(***************************************************************************)
InitOutcomes == {"ok", "load_fails", "components_fail", "from_url_fails"}

\* initialize() with the connection opened whatever ENABLE_CACHE says.
InitializeAlwaysConnects(o) ==
  /\ startup = "pending"
  /\ ~loop_blocked
  /\ o = "from_url_fails" => settings.ENABLE_CACHE
  /\ nlp' = IF o = "load_fails" THEN "None"
            ELSE IF o = "components_fail" THEN "model"
            ELSE "ruled"
  /\ redis_client' = IF o = "ok" THEN "client" ELSE "None"
  /\ startup' = IF o = "ok" THEN "ok" ELSE "failed"
  /\ UNCHANGED <<database, tasks, settings, cache, calls, loop_blocked, probe>>

\* initialize() with the connection opened before the model is loaded.
InitializeConnectsFirst(o) ==
  /\ startup = "pending"
  /\ ~loop_blocked
  /\ o = "from_url_fails" => settings.ENABLE_CACHE
  /\ nlp' = IF o \in {"load_fails", "from_url_fails"} THEN "None"
            ELSE IF o = "components_fail" THEN "model"
            ELSE "ruled"
  /\ redis_client' = IF o # "from_url_fails" /\ settings.ENABLE_CACHE THEN "client"
                     ELSE "None"
  /\ startup' = IF o = "ok" THEN "ok" ELSE "failed"
  /\ UNCHANGED <<database, tasks, settings, cache, calls, loop_blocked, probe>>

Initialize(o) ==
  /\ startup = "pending"
  /\ ~loop_blocked
  /\ o = "from_url_fails" => settings.ENABLE_CACHE
  /\ nlp' = IF o = "load_fails" THEN "None"
            ELSE IF o = "components_fail" THEN "model"
            ELSE "ruled"
  /\ redis_client' = IF o = "ok" /\ settings.ENABLE_CACHE THEN "client" ELSE "None"
  /\ startup' = IF o = "ok" THEN "ok" ELSE "failed"
  /\ UNCHANGED <<database, tasks, settings, cache, calls, loop_blocked, probe>>

(***************************************************************************)
(* analyze_text, lines 124-139: the extraction and what follows it, run    *)
(* without suspension up to the await of setex.  o is the outcome of the   *)
(* self.nlp(text) call: it answers, throws, or never returns.              *)
(***************************************************************************)
NlpOutcomes == {"ok", "raise", "hang"}

\* The exception of self.nlp(text) swallowed: an empty entity list instead.
ModelFailureContained(call) ==
  [call EXCEPT !.pc = "done", !.extracted = TRUE, !.model = "raise",
               !.ret = Return([analysis |-> extract_basic_info(Text(call.text)),
                               entities |-> <<>>,
                               requirements |-> extract_requirements(Text(call.text))],
                              "nocache")]

\* An exception of self.nlp(text) leaves _extract_entities and analyze_text.
ModelFailure(call) ==
  [call EXCEPT !.pc = "done", !.extracted = TRUE, !.model = "raise",
               !.ret = Raise("model")]

PerformAnalysis(call, o) ==
  LET text == Text(call.text)
      called == nlp # "None"
  IN IF BasicInfoRaises(text)
     THEN [call EXCEPT !.pc = "done", !.extracted = TRUE, !.ret = Raise("extractor")]
     ELSE IF called /\ o = "raise" THEN ModelFailure(call)
     ELSE IF called /\ o = "hang"
          THEN [call EXCEPT !.pc = "blocked", !.extracted = TRUE, !.model = "hang"]
     ELSE IF cache_enabled
          THEN [call EXCEPT !.pc = "await_setex", !.extracted = TRUE,
                            !.model = IF called THEN "ok" ELSE "none",
                            !.result = AnalysisResult(nlp, text),
                            !.write = "sent"]
          ELSE [call EXCEPT !.pc = "done", !.extracted = TRUE,
                            !.model = IF called THEN "ok" ELSE "none",
                            !.ret = Return(AnalysisResult(nlp, text), "nocache")]

(***************************************************************************)
(* POST /analyze -> analyze_edital -> analyzer.analyze_text, up to the     *)
(* first await.                                                            *)
(***************************************************************************)
AnalyzeEdital(id, o) ==
  /\ BagCardinality(calls) < NumCalls
  /\ ~loop_blocked
  /\ LET call == NewCall(id)
         next == IF IsEmpty(Text(id))
                 THEN [call EXCEPT !.pc = "done", !.ret = NotCalled]
                 ELSE IF cache_enabled
                      THEN [call EXCEPT !.pc = "await_get", !.lookup = "sent"]
                      ELSE PerformAnalysis(call, o)
     IN /\ calls' = calls (+) SetToBag({next})
        /\ loop_blocked' = (next.pc = "blocked")
  /\ UNCHANGED <<database, tasks, settings, nlp, redis_client, startup, cache, probe>>

\* The GET sent as a GETEX: a hit renews the entry's time-to-live.
RedisGetexReply(call, r) ==
  /\ call.pc = "await_get"
  /\ ~loop_blocked
  /\ LET key == get_cache_key(Text(call.text))
         live == RedisLive(cache, key)
     IN /\ calls' = Replace(call,
             [call EXCEPT !.pc = "got",
                          !.lookup = IF r = "error" THEN "error"
                                     ELSE IF live THEN "hit"
                                     ELSE IF cache[key] = NoEntry THEN "absent"
                                     ELSE "expired",
                          !.got = IF r = "answer" /\ live
                                  THEN [t |-> "value", doc |-> cache[key].value]
                                  ELSE NoValue])
        /\ cache' = IF r = "answer" /\ live
                    THEN RedisSetex(cache, key, CACHE_TTL, cache[key].value)
                    ELSE cache
  /\ UNCHANGED <<database, tasks, settings, nlp, redis_client, startup, loop_blocked, probe>>

\* Redis answers the GET, or the connection fails.
RedisGetReply(call, r) ==
  /\ call.pc = "await_get"
  /\ ~loop_blocked
  /\ LET key == get_cache_key(Text(call.text))
         live == RedisLive(cache, key)
     IN calls' = Replace(call,
          [call EXCEPT !.pc = "got",
                       !.lookup = IF r = "error" THEN "error"
                                  ELSE IF live THEN "hit"
                                  ELSE IF cache[key] = NoEntry THEN "absent"
                                  ELSE "expired",
                       !.got = IF r = "answer" /\ live
                               THEN [t |-> "value", doc |-> cache[key].value]
                               ELSE NoValue])
  /\ UNCHANGED <<database, tasks, settings, nlp, redis_client, startup, cache, loop_blocked, probe>>

\* analyze_text resumed after the get with the answer ignored: the
\* extraction runs whether or not a value came back.
ResumeAfterGetRecompute(call, o) ==
  /\ call.pc = "got"
  /\ ~loop_blocked
  /\ LET next == IF call.lookup = "error"
                 THEN [call EXCEPT !.pc = "done", !.ret = Raise("cache_get")]
                 ELSE PerformAnalysis([call EXCEPT !.got = NoValue], o)
     IN /\ calls' = Replace(call, next)
        /\ loop_blocked' = (next.pc = "blocked")
  /\ UNCHANGED <<database, tasks, settings, nlp, redis_client, startup, cache, probe>>

\* The event loop resumes analyze_text after `await self.redis_client.get`.
ResumeAfterGet(call, o) ==
  /\ call.pc = "got"
  /\ ~loop_blocked
  /\ LET next == IF call.lookup = "error"
                 THEN [call EXCEPT !.pc = "done", !.ret = Raise("cache_get")]
                 ELSE IF call.lookup = "hit"
                      THEN [call EXCEPT !.pc = "done", !.got = NoValue,
                                        !.ret = Return(json_loads(call.got.doc), "hit")]
                      ELSE PerformAnalysis(call, o)
     IN /\ calls' = Replace(call, next)
        /\ loop_blocked' = (next.pc = "blocked")
  /\ UNCHANGED <<database, tasks, settings, nlp, redis_client, startup, cache, probe>>

\* Redis applies the SETEX and answers, or the connection fails.
RedisSetexReply(call, r) ==
  /\ call.pc = "await_setex"
  /\ ~loop_blocked
  /\ calls' = Replace(call, [call EXCEPT !.pc = "set", !.write = r])
  /\ cache' = IF r = "ok"
              THEN RedisSetex(cache, get_cache_key(Text(call.text)), CACHE_TTL,
                              json_dumps(call.result))
              ELSE cache
  /\ UNCHANGED <<database, tasks, settings, nlp, redis_client, startup, loop_blocked, probe>>

\* The event loop resumes analyze_text after `await self.redis_client.setex`.
ResumeAfterSetex(call) ==
  /\ call.pc = "set"
  /\ ~loop_blocked
  /\ calls' = Replace(call,
       IF call.write = "ok"
       THEN [call EXCEPT !.pc = "done", !.ret = Return(call.result, "miss")]
       ELSE [call EXCEPT !.pc = "done", !.ret = Raise("cache_setex")])
  /\ UNCHANGED <<database, tasks, settings, nlp, redis_client, startup, cache, loop_blocked, probe>>

\* The MLAnalysisResponse analyze_edital builds from a finished call.
MLAnalysisResponse(call) ==
  IF call.ret.t = "not_called"
  THEN [success |-> FALSE, error |-> "No text content provided"]
  ELSE IF call.ret.t = "raise"
       THEN [success |-> FALSE, error |-> "Analysis failed"]
       ELSE [success |-> TRUE, error |-> "None"]

\* analyze_edital returns its response: the request is over.
Respond(call) ==
  /\ call.pc = "done"
  /\ MLAnalysisResponse(call).success = (call.ret.t = "return")
  /\ calls' = calls (-) SetToBag({call})
  /\ UNCHANGED <<database, tasks, settings, nlp, redis_client, startup, cache, loop_blocked, probe>>

\* Time passes while some entry is alive (otherwise nothing changes).
Tick ==
  /\ cache' = RedisAge(cache, TickSeconds)
  /\ cache' # cache
  /\ UNCHANGED <<database, tasks, settings, nlp, redis_client, startup, calls, loop_blocked, probe>>

Next ==
  \/ \E o \in InitOutcomes : Initialize(o)
  \/ \E id \in TextIds, o \in NlpOutcomes : AnalyzeEdital(id, o)
  \/ \E call \in Calls, r \in {"answer", "error"} : RedisGetReply(call, r)
  \/ \E call \in Calls, o \in NlpOutcomes : ResumeAfterGet(call, o)
  \/ \E call \in Calls, r \in {"ok", "error"} : RedisSetexReply(call, r)
  \/ \E call \in Calls : ResumeAfterSetex(call)
  \/ \E call \in Calls : Respond(call)
  \/ Tick

Spec == Init /\ [][Next]_vars

(***************************************************************************)
(* The analyzer's methods called directly, one call at a time: the         *)
(* extraction passes on a text and get_status().  probe holds the last     *)
(* call's argument and outcome.  The texts are given, field by field, by   *)
(* the captures the field's patterns yield on them.                        *)
(***************************************************************************)
\* What each pattern of _extract_organizacao can capture: only the first
\* pattern's capture can be 3 characters or less once trimmed.
OrganizacaoCaptures ==
  << {NoMatch, Capture(<<"I", "t", "u">>), Capture(<<"I", "t", "a", " ">>),
      Capture(<<"N", "a", "t", "a", "l">>)},
     {NoMatch, Capture(<<"A", "C", "M", "E", " ", "L", "T", "D", "A">>)},
     {NoMatch, Capture(<<"U", "N", "I", "V", "E", "R", "S", "I", "D", "A", "D", "E",
                         " ", "U", "F", "X">>)},
     {NoMatch, Capture(<<"I", "N", "S", "T", "I", "T", "U", "T", "O", " ",
                         "I", "F", "X">>)} >>

NumeroProcessoCaptures ==
  << {NoMatch, Capture(<<"1", "2", "/", "2", "0", "2", "4">>)},
     {NoMatch, Capture(<<"7", "/", "2", "0", "2", "5">>)},
     {NoMatch, Capture(<<"3", "/", "2", "0", "2", "3">>)} >>

\* Date tokens: a calendar date, or 31/02 (the parser answers None).
DataAberturaCaptures ==
  << {NoMatch, DateToken(10, 5, 2024, FALSE), DateToken(31, 2, 2024, FALSE)},
     {NoMatch, DateToken(20, 6, 2024, FALSE), DateToken(31, 2, 2024, FALSE)} >>

DataSessaoCaptures ==
  << {NoMatch, DateToken(15, 5, 2024, FALSE), DateToken(31, 2, 2024, FALSE)},
     {NoMatch, DateToken(25, 6, 2024, FALSE), DateToken(31, 2, 2024, FALSE)} >>

\* (.{10,200}?): a capture is at least ObjetoRawMin characters long before
\* trimming.  The captures tried have a trimmed length within ObjetoSpread
\* of the threshold, padded with leading blanks up to the raw minimum; the
\* p-th pattern's capture is made of the p-th letter.
ObjetoRawMin == 10
ObjetoSpread == 1
ObjetoLetters == <<"a", "b", "c">>
Chars(n, c) == [i \in 1..n |-> c]
ObjetoCapture(n, p) ==
  Capture(Chars(IF n < ObjetoRawMin THEN ObjetoRawMin - n ELSE 0, " ")
          \o Chars(n, ObjetoLetters[p]))
ObjetoCaptures ==
  [p \in 1..ObjetoPatterns |->
     {NoMatch} \cup {ObjetoCapture(n, p) :
                       n \in (ObjetoRawMin - ObjetoSpread)..(ObjetoRawMin + ObjetoSpread)}]

\* Currency numerals with "." between thousands and "," before the decimals.
ValorNumerals ==
  { <<"1", ".", "5", "0", "0", ",", "0", "0">>,
    <<"1", "2", ".", "3", "4", "5", ".", "6", "7", "8", ",", "9", "0">>,
    <<"0", ",", "9", "9">>,
    <<"7", "5", "0", ",", "5">>,
    <<"1", ".", "0", "0", "0">> }

\* ([\d.,]+) also takes the punctuation that follows a numeral:
\* "R$ 1.500,00, conforme" yields "1.500,00,", "R$ ..." yields "...".
ValorEstimadoCaptures ==
  << {NoMatch, Capture(<<"1", ".", "5", "0", "0", ",", "0", "0", ",">>)}
       \cup {Capture(v) : v \in ValorNumerals},
     {NoMatch, Capture(<<"2", ".", "0", "0", "0", ",", "0", "0">>),
      Capture(<<"2", ".", "0", "0", "0", ",", "0", "0", ",">>)},
     {NoMatch, Capture(<<"9", ",", "0", "0">>), Capture(<<".", ".", ".">>)} >>

\* The keys of the two keyword tables.  A text is given by the keywords its
\* lower-cased form contains, at most MaxKeywords of them, listed in
\* lower_order by the position of their first occurrence.
Keywords ==
  {modalities[i][1] : i \in DOMAIN modalities} \cup {criteria[i][1] : i \in DOMAIN criteria}
MaxKeywords == 2
KeywordOrders ==
  {o \in UNION {[1..n -> Keywords] : n \in 0..MaxKeywords} :
     \A i, j \in DOMAIN o : i # j => o[i] # o[j]}

\* The vectors of captures: one capture, or NoMatch, per pattern.
Vectors(captures) ==
  {v \in [DOMAIN captures -> UNION {captures[i] : i \in DOMAIN captures}] :
     \A i \in DOMAIN captures : v[i] \in captures[i]}

ProbeText == NoText("probe", 200, FALSE)

KeywordProbe(o) ==
  [ProbeText EXCEPT !.lower_contains = {o[i] : i \in DOMAIN o}, !.lower_order = o]
KeywordProbes == {KeywordProbe(o) : o \in KeywordOrders}

HeaderProbes ==
  {[ProbeText EXCEPT !.organizacao = v] : v \in Vectors(OrganizacaoCaptures)}
  \cup {[ProbeText EXCEPT !.numero_processo = v] : v \in Vectors(NumeroProcessoCaptures)}
  \cup {[ProbeText EXCEPT !.data_abertura = v] : v \in Vectors(DataAberturaCaptures)}
  \cup {[ProbeText EXCEPT !.data_sessao = v] : v \in Vectors(DataSessaoCaptures)}
  \cup {[ProbeText EXCEPT !.objeto = v] : v \in Vectors(ObjetoCaptures)}
  \cup {[ProbeText EXCEPT !.valor_estimado = v] : v \in Vectors(ValorEstimadoCaptures)}
  \cup {KeywordProbe(o) : o \in {q \in KeywordOrders : Len(q) <= 1}}
  \cup {TextEmpty, TextBlank, TextFull, TextBadDate}

\* "Ana Lima, da ACME LTDA, julgará por menor preço em Brasília, Brasil,
\*  R$ 9,00 em 10/05/2024 com Rui Sá": spans with the labels of the
\* Portuguese model (PER, LOC), of the entity ruler, and of the allow-list.
TextEntities ==
  [NoText("entities", 101, FALSE) EXCEPT
    !.lower_contains = {"menor preço"},
    !.lower_order = <<"menor preço">>,
    !.ents = <<Span("PER", "Ana Lima", 0, 8),
               Span("ORG", "ACME LTDA", 13, 22),
               Span("CRITERIO", "menor preço", 36, 47),
               Span("LOC", "Brasília", 51, 59),
               Span("GPE", "Brasil", 61, 67),
               Span("MONEY", "R$ 9,00", 69, 76),
               Span("DATE", "10/05/2024", 80, 90),
               Span("PERSON", "Rui Sá", 95, 101)>>]

EntityProbes == {TextBlank, TextFull, TextLong, TextEntities}

\* self._extract_basic_info(text)
ExtractBasicInfo(text) ==
  /\ probe' = [t |-> "basic_info", text |-> text,
               ret |-> IF BasicInfoRaises(text) THEN Raise("extractor")
                       ELSE [t |-> "return", value |-> extract_basic_info(text)]]
  /\ UNCHANGED <<database, tasks, settings, nlp, redis_client, startup, cache, calls, loop_blocked>>

\* self._extract_entities(text); cached is what a json round trip makes of
\* the returned list.
ExtractEntities(text, o) ==
  /\ probe' = [t |-> "entities", text |-> text, nlp |-> nlp,
               ret |-> IF nlp # "None" /\ o = "raise" THEN Raise("model")
                       ELSE [t |-> "return", value |-> extract_entities(nlp, text),
                             cached |-> MapDicts(MapDicts(extract_entities(nlp, text),
                                                          JsonDumpLeaf), JsonLoadLeaf)]]
  /\ UNCHANGED <<database, tasks, settings, nlp, redis_client, startup, cache, calls, loop_blocked>>

\* get_status() without the handler around the ping.
get_status_unguarded(ping) ==
  IF redis_client # "None" /\ ping = "error" THEN Raise("ping")
  ELSE [t |-> "return",
        value |-> [spacy_model_loaded |-> nlp # "None",
                   spacy_model_name |-> IF nlp # "None" THEN "pt_core_news_sm" ELSE "None",
                   redis_connected |-> redis_client # "None",
                   patterns_loaded |-> Cardinality(DOMAIN load_patterns),
                   document_types_loaded |-> Len(load_document_types)]]

\* get_status() with the ping answered ("pong") or failing ("error"): the
\* ping exception is swallowed.
get_status(ping) ==
  [t |-> "return",
   value |-> [spacy_model_loaded |-> nlp # "None",
              spacy_model_name |-> IF nlp # "None" THEN "pt_core_news_sm" ELSE "None",
              redis_connected |-> redis_client # "None" /\ ping = "pong",
              patterns_loaded |-> Cardinality(DOMAIN load_patterns),
              document_types_loaded |-> Len(load_document_types)]]

\* GET /models/status -> analyzer.get_status()
GetModelsStatus(ping) ==
  /\ probe' = [t |-> "status", nlp |-> nlp, redis_client |-> redis_client,
               startup |-> startup,
               ping |-> IF redis_client # "None" THEN ping ELSE "not_sent",
               ret |-> get_status(ping)]
  /\ UNCHANGED <<database, tasks, settings, nlp, redis_client, startup, cache, calls, loop_blocked>>

UnitNext ==
  \/ \E o \in InitOutcomes : Initialize(o)
  \/ \E text \in HeaderProbes : ExtractBasicInfo(text)
  \/ \E text \in EntityProbes, o \in {"ok", "raise"} : ExtractEntities(text, o)
  \/ \E ping \in {"pong", "error"} : GetModelsStatus(ping)

UnitSpec == Init /\ [][UnitNext]_vars

(***************************************************************************)
(* The service asked to analyze texts longer than MAX_TEXT_LENGTH.         *)
(***************************************************************************)
LongNext ==
  \/ \E o \in InitOutcomes : Initialize(o)
  \/ \E id \in LongIds, o \in NlpOutcomes : AnalyzeEdital(id, o)
  \/ \E call \in Calls, r \in {"answer", "error"} : RedisGetReply(call, r)
  \/ \E call \in Calls, o \in NlpOutcomes : ResumeAfterGet(call, o)
  \/ \E call \in Calls, r \in {"ok", "error"} : RedisSetexReply(call, r)
  \/ \E call \in Calls : ResumeAfterSetex(call)
  \/ \E call \in Calls : Respond(call)
  \/ Tick

LongSpec == Init /\ [][LongNext]_vars

(***************************************************************************)
(* The table-driven passes called directly on texts given by what the      *)
(* tables' keys find in them.  A call is made when the previous call's     *)
(* value has been dropped.                                                 *)
(***************************************************************************)
\* The caller is done with the returned value.
Discard ==
  /\ probe # NoProbe
  /\ probe' = NoProbe
  /\ UNCHANGED <<database, tasks, settings, nlp, redis_client, startup, cache, calls, loop_blocked>>

TableNext ==
  \/ \E text \in KeywordProbes : probe = NoProbe /\ ExtractBasicInfo(text)
  \/ Discard

TableSpec == Init /\ [][TableNext]_vars

(***************************************************************************)
(* _extract_requirements called directly.  A text is given by the          *)
(* description its first requirement pattern captures: vocabulary phrases  *)
(* joined by " e ", each written with a capital first letter, the later    *)
(* entries of the vocabulary standing first.                               *)
(***************************************************************************)
\* `key in description`
Contains(s, sub) ==
  \E i \in 0..(Len(s) - Len(sub)) : SubSeq(s, i + 1, i + Len(sub)) = sub

\* The vocabulary phrases a lower-cased description contains.
VocabOf(description) ==
  {load_document_types[i][1] :
     i \in {k \in DOMAIN DocumentTypePhrases : Contains(description, DocumentTypePhrases[k])}}

UpperChar(c) ==
  IF \E i \in DOMAIN LowerChars : LowerChars[i] = c
  THEN UpperChars[CHOOSE i \in DOMAIN LowerChars : LowerChars[i] = c]
  ELSE c
Capitalized(s) == IF s = <<>> THEN s ELSE <<UpperChar(Head(s))>> \o Tail(s)

\* (.{5,100}?): the longest capture of the first requirement pattern.
DescriptionMax == 100
MaxPhrases == 2
PhraseOrders ==
  {q \in UNION {[1..n -> DOMAIN DocumentTypePhrases] : n \in 0..MaxPhrases} :
     \A i, j \in DOMAIN q : i < j => q[i] > q[j]}

RECURSIVE JoinPhrases(_)
JoinPhrases(q) ==
  IF q = <<>> THEN <<>>
  ELSE Capitalized(DocumentTypePhrases[Head(q)])
       \o (IF Tail(q) = <<>> THEN <<>> ELSE <<" ", "e", " ">> \o JoinPhrases(Tail(q)))

\* Captures without a vocabulary phrase, or too short or generic to be kept.
PlainDescriptions ==
  { <<"R", "e", "g", "u", "l", "a", "r", "i", "d", "a", "d", "e", " ",
      "f", "i", "s", "c", "a", "l">>,
    <<" ", " ", "D", "a", "s", " ">>,
    <<" ", "r", "g", " ", " ">> }

Descriptions ==
  {d \in {JoinPhrases(q) : q \in PhraseOrders} : Len(d) \in 5..DescriptionMax}
  \cup PlainDescriptions

RequirementProbe(s) ==
  [ProbeText EXCEPT !.reqs[1] = <<ReqCapture(s, VocabOf(Lower(Strip(s))))>>]
RequirementProbes == {RequirementProbe(d) : d \in Descriptions} \cup {TextBlank, TextFull}

\* self._extract_requirements(text)
ExtractRequirements(text) ==
  /\ probe' = [t |-> "requirements", text |-> text,
               ret |-> [t |-> "return", value |-> extract_requirements(text)]]
  /\ UNCHANGED <<database, tasks, settings, nlp, redis_client, startup, cache, calls, loop_blocked>>

RequirementNext ==
  \/ \E text \in RequirementProbes : probe = NoProbe /\ ExtractRequirements(text)
  \/ Discard

RequirementSpec == Init /\ [][RequirementNext]_vars

(***************************************************************************)
(* The backend (routers/editals.py).  One edital; its row holds the        *)
(* analysis status and the error message, and the rows of edital_analyses, *)
(* extracted_entities and habilitacao_requirements that carry its id are   *)
(* kept in insertion order.  Each run of process_edital_analysis opens a   *)
(* session of its own and advances from await to await; runs queued by the *)
(* upload and by re-analysis requests interleave on the event loop.  Every *)
(* statement the session sends to the database (execute, commit) either    *)
(* succeeds or raises.                                                     *)
(***************************************************************************)
AnalysisStatus == {"PENDING", "PROCESSING", "COMPLETED", "FAILED"}

\* Runs of process_edital_analysis queued for the edital.
MaxRuns == 2

DbOutcomes == {"ok", "error"}

\* What DocumentProcessor gets out of the stored PDF, OCR included.
PdfTexts == {TextBlank, TextFull, TextLong}

\* What the POST to the ML service comes to: a response reporting success,
\* a response reporting failure, or no usable response.
MlOutcomes == {"success", "failure", "unavailable"}

NoResponse == [t |-> "NoResponse"]

\* MLAnalysisResponse(success=True, ...) as the ML service builds it from
\* the result of analyze_text.
MLAnalysisResponseOf(result) ==
  [success |-> TRUE, analysis |-> result.analysis, entities |-> result.entities,
   requirements |-> result.requirements, error |-> "None"]

\* MLAnalysisResponse(success=False, error=...).
MLAnalysisResponseError(error) ==
  [success |-> FALSE, analysis |-> PyNone, entities |-> <<>>,
   requirements |-> <<>>, error |-> error]

\* call_ml_service never raises: every exception becomes a response with
\* success = False.
call_ml_service(text, o) ==
  IF o = "success" THEN MLAnalysisResponseOf(AnalysisResult("ruled", text))
  ELSE IF o = "failure" THEN MLAnalysisResponseError("Analysis failed")
  ELSE MLAnalysisResponseError("ML service unavailable")

\* A queued run.  seen is the analysis status the run's session holds for
\* the edital it loaded; exc is the exception on its way to the handler.
NewRun ==
  [pc |-> "queued", seen |-> "None", text |-> "None",
   response |-> NoResponse, exc |-> "None"]

Runs == BagToSet(tasks)
ReplaceRun(run, next) == (tasks (-) SetToBag({run})) (+) SetToBag({next})

\* The edital row with the given columns written.
WithStatus(db, analysis_status, error_message) ==
  [db EXCEPT !.edital = [analysis_status |-> analysis_status,
                         error_message |-> error_message]]

\* The tables as the adds of save_analysis_results leave them after its
\* commit: the statements executed before the adds are SELECTs, so the rows
\* already stored for the edital stay.
save_analysis_results(db, ml_response) ==
  [db EXCEPT
    !.edital_analyses =
       IF ml_response.analysis # PyNone THEN Append(@, ml_response.analysis) ELSE @,
    !.extracted_entities = @ \o ml_response.entities,
    !.habilitacao_requirements = @ \o ml_response.requirements]

\* upload_edital: the row is inserted with status PENDING and the first run
\* is queued.
UploadEdital ==
  /\ database.edital = NoEdital
  /\ database' = WithStatus(database, "PENDING", "None")
  /\ tasks' = tasks (+) SetToBag({NewRun})
  /\ UNCHANGED <<settings, nlp, redis_client, startup, cache, calls, loop_blocked, probe>>

\* reanalyze_edital: whatever the status, it is set to PROCESSING, the error
\* message is cleared and another run is queued.
ReanalyzeEdital ==
  /\ database.edital # NoEdital
  /\ BagCardinality(tasks) < MaxRuns
  /\ database' = WithStatus(database, "PROCESSING", "None")
  /\ tasks' = tasks (+) SetToBag({NewRun})
  /\ UNCHANGED <<settings, nlp, redis_client, startup, cache, calls, loop_blocked, probe>>

\* select(Edital).where(Edital.id == edital_id).  When the statement raises,
\* the handler finds the name edital unbound and its own exception leaves
\* the task.
LoadEdital(run, o) ==
  /\ run.pc = "queued"
  /\ tasks' = ReplaceRun(run,
       IF o = "ok"
       THEN [run EXCEPT !.pc = "loaded", !.seen = database.edital.analysis_status]
       ELSE [run EXCEPT !.pc = "crashed", !.exc = "UnboundLocalError"])
  /\ UNCHANGED <<database, settings, nlp, redis_client, startup, cache, calls,
                 loop_blocked, probe>>

\* edital.analysis_status = PROCESSING; commit.  The session writes the
\* column only when the value differs from the one it loaded.
MarkProcessing(run, o) ==
  /\ run.pc = "loaded"
  /\ IF o = "ok"
     THEN /\ database' =
               IF run.seen # "PROCESSING"
               THEN WithStatus(database, "PROCESSING", database.edital.error_message)
               ELSE database
          /\ tasks' = ReplaceRun(run, [run EXCEPT !.pc = "extract", !.seen = "PROCESSING"])
     ELSE /\ database' = database
          /\ tasks' = ReplaceRun(run, [run EXCEPT !.pc = "handler", !.exc = "commit failed"])
  /\ UNCHANGED <<settings, nlp, redis_client, startup, cache, calls, loop_blocked, probe>>

\* extract_text_from_pdf, then extract_text_with_ocr when the text is blank;
\* blank after both raises.
ExtractText(run, text) ==
  /\ run.pc = "extract"
  /\ tasks' = ReplaceRun(run,
       IF IsBlank(text)
       THEN [run EXCEPT !.pc = "handler", !.exc = "Could not extract text from PDF"]
       ELSE [run EXCEPT !.pc = "call_ml", !.text = text.id])
  /\ UNCHANGED <<database, settings, nlp, redis_client, startup, cache, calls,
                 loop_blocked, probe>>

\* ml_response = await call_ml_service(...); a response without success
\* raises.
CallMlService(run, o) ==
  /\ run.pc = "call_ml"
  /\ LET ml_response == call_ml_service(Text(run.text), o)
     IN tasks' = ReplaceRun(run,
          IF ml_response.success
          THEN [run EXCEPT !.pc = "save", !.response = ml_response]
          ELSE [run EXCEPT !.pc = "handler", !.response = ml_response,
                           !.exc = "ML analysis failed"])
  /\ UNCHANGED <<database, settings, nlp, redis_client, startup, cache, calls,
                 loop_blocked, probe>>

\* await save_analysis_results(db, edital_id, ml_response): the rows are
\* added and committed; a failure is rolled back and raised again.
SaveAnalysisResults(run, o) ==
  /\ run.pc = "save"
  /\ IF o = "ok"
     THEN /\ database' = save_analysis_results(database, run.response)
          /\ tasks' = ReplaceRun(run, [run EXCEPT !.pc = "complete"])
     ELSE /\ database' = database
          /\ tasks' = ReplaceRun(run, [run EXCEPT !.pc = "handler", !.exc = "save failed"])
  /\ UNCHANGED <<settings, nlp, redis_client, startup, cache, calls, loop_blocked, probe>>

\* edital.analysis_status = COMPLETED; commit.
MarkCompleted(run, o) ==
  /\ run.pc = "complete"
  /\ IF o = "ok"
     THEN /\ database' = WithStatus(database, "COMPLETED", database.edital.error_message)
          /\ tasks' = ReplaceRun(run, [run EXCEPT !.pc = "email", !.seen = "COMPLETED"])
     ELSE /\ database' = database
          /\ tasks' = ReplaceRun(run, [run EXCEPT !.pc = "handler", !.exc = "commit failed"])
  /\ UNCHANGED <<settings, nlp, redis_client, startup, cache, calls, loop_blocked, probe>>

\* send_analysis_complete_email: never raises; the run is over.
SendEmail(run) ==
  /\ run.pc = "email"
  /\ tasks' = ReplaceRun(run, [run EXCEPT !.pc = "done"])
  /\ UNCHANGED <<database, settings, nlp, redis_client, startup, cache, calls,
                 loop_blocked, probe>>

\* except Exception as e: the status is set to FAILED with str(e) and
\* committed; when that commit raises, the exception leaves the task and the
\* row stays as it was.
HandleFailure(run, o) ==
  /\ run.pc = "handler"
  /\ IF o = "ok"
     THEN /\ database' = WithStatus(database, "FAILED", run.exc)
          /\ tasks' = ReplaceRun(run, [run EXCEPT !.pc = "done", !.seen = "FAILED"])
     ELSE /\ database' = database
          /\ tasks' = ReplaceRun(run, [run EXCEPT !.pc = "crashed"])
  /\ UNCHANGED <<settings, nlp, redis_client, startup, cache, calls, loop_blocked, probe>>

BackendNext ==
  \/ UploadEdital
  \/ ReanalyzeEdital
  \/ \E run \in Runs, o \in DbOutcomes : LoadEdital(run, o)
  \/ \E run \in Runs, o \in DbOutcomes : MarkProcessing(run, o)
  \/ \E run \in Runs, text \in PdfTexts : ExtractText(run, text)
  \/ \E run \in Runs, o \in MlOutcomes : CallMlService(run, o)
  \/ \E run \in Runs, o \in DbOutcomes : SaveAnalysisResults(run, o)
  \/ \E run \in Runs, o \in DbOutcomes : MarkCompleted(run, o)
  \/ \E run \in Runs : SendEmail(run)
  \/ \E run \in Runs, o \in DbOutcomes : HandleFailure(run, o)

BackendSpec == Init /\ [][BackendNext]_vars

(***************************************************************************)
(* Properties.                                                             *)
(***************************************************************************)
KeyOf(call) == get_cache_key(Text(call.text))
Finished(call) == call.pc = "done"
Returned(call) == call.pc = "done" /\ call.ret.t = "return"

\* C1: fail-open cache read.  A finished analyze_text call whose cache
\* lookup failed has run the extraction, as on a miss, and the lookup's
\* error has not reached the caller.
C1_FailOpenRead ==
  \A call \in Calls :
    (Finished(call) /\ call.lookup = "error")
      => (call.extracted /\ call.ret # Raise("cache_get"))

\* C2: fail-open cache write.  A finished call whose extraction succeeded
\* and whose cache write failed returns the computed result.
C2_FailOpenWrite ==
  \A call \in Calls :
    (Finished(call) /\ call.write = "error")
      => (call.ret.t = "return" /\ call.ret.value = call.result)

\* C3: a request with empty or blank text fails at once: its call never
\* looks the cache up, never extracts, never writes the cache and returns no
\* analysis result.
C3_BlankRejected ==
  \A call \in Calls :
    IsBlank(Text(call.text))
      => /\ call.lookup = "none"
         /\ ~call.extracted
         /\ call.write = "none"
         /\ call.ret.t # "return"

\* C4: an analysis result is returned only by an analyzer whose
\* initialize() has succeeded.
C4_InitializedOnly ==
  \A call \in Calls : Returned(call) => call.ret.startup = "ok"

\* C5: cache round trip.  A result served from the cache equals, value by
\* value and type by type, the result that was computed for the text and
\* written.
C5_CacheRoundTrip ==
  \A call \in Calls :
    (Returned(call) /\ call.ret.via = "hit")
      => call.ret.value = AnalysisResult(call.ret.nlp, Text(call.text))

\* C6: determinism.  Two calls that return a result for the same text
\* under the same model return the same result, hit or miss.
C6_Deterministic ==
  \A a, b \in Calls :
    (Returned(a) /\ Returned(b) /\ a.text = b.text /\ a.ret.nlp = b.ret.nlp)
      => a.ret.value = b.ret.value

\* C7: expiry.  A GET answers a value only for an entry written less than
\* CACHE_TTL seconds ago and answers nil once the time-to-live has elapsed;
\* a call answered nil runs the extractors and returns no cached value; and
\* the SETEX that follows stores the serialized result with a fresh
\* time-to-live of CACHE_TTL.
C7_GetStep(call, next) ==
  (call.pc = "await_get" /\ next.pc = "got" /\ calls' = Replace(call, next))
    => LET e == cache[KeyOf(call)]
       IN /\ next.lookup = "hit"
               => /\ e # NoEntry /\ e.expires
                  /\ e.ttl > 0 /\ e.ttl <= CACHE_TTL
                  /\ next.got = [t |-> "value", doc |-> e.value]
          /\ (e # NoEntry /\ e.expires /\ e.ttl = 0) => next.lookup \in {"expired", "error"}

C7_MissStep(call, next) ==
  (call.pc = "got" /\ call.lookup \in {"absent", "expired"}
                   /\ next # call /\ calls' = Replace(call, next))
    => /\ next.extracted
       /\ next.ret.t = "return" => next.ret.via # "hit"
       /\ next.pc = "await_setex" => next.result = AnalysisResult(nlp, Text(call.text))

C7_SetexStep(call, next) ==
  (call.pc = "await_setex" /\ next.pc = "set" /\ next.write = "ok"
                           /\ calls' = Replace(call, next))
    => cache'[KeyOf(call)] = [t |-> "entry", value |-> json_dumps(call.result),
                              expires |-> TRUE, ttl |-> CACHE_TTL]

C7_Expiry ==
  [][\A call \in Calls : \A next \in BagToSet(calls') :
       /\ C7_GetStep(call, next)
       /\ C7_MissStep(call, next)
       /\ C7_SetexStep(call, next)]_vars

\* A call found a dead entry, recomputed, and has stored a fresh one.
C7_Witness ==
  \E call \in Calls :
    /\ Returned(call) /\ call.lookup = "expired" /\ call.ret.via = "miss"
    /\ call.extracted
    /\ cache[KeyOf(call)].ttl = CACHE_TTL

\* C8: no call blocks indefinitely.  While a call waits for the cache or
\* for the model, a step of the analyzer that ends the wait (giving up on the
\* cache, failing the analysis) is possible without the backend answering.
AnalyzerStep(call) ==
  \/ \E o \in NlpOutcomes : ResumeAfterGet(call, o)
  \/ ResumeAfterSetex(call)

Waiting(call) == call.pc \in {"await_get", "await_setex", "blocked"}

C8_NeverBlocksForever ==
  \A call \in Calls : Waiting(call) => ENABLED AnalyzerStep(call)

\* C9: extraction-failure containment.  When exactly one header-field
\* extractor throws on the text, the call that ran the extraction returns a
\* result with that field absent and everything else as extracted.
ThrowingExtractors(text) ==
  {f \in {"data_abertura", "data_sessao"} : DateRaises(text[f], load_patterns[f])}

ContainedInfo(text) ==
  [extract_basic_info(text) EXCEPT
     !.data_abertura_propostas =
        IF "data_abertura" \in ThrowingExtractors(text) THEN PyNone ELSE @,
     !.data_sessao_publica =
        IF "data_sessao" \in ThrowingExtractors(text) THEN PyNone ELSE @]

C9_ExtractionContained ==
  \A call \in Calls :
    (Finished(call) /\ call.extracted /\ call.model # "raise" /\ call.write # "error"
       /\ Cardinality(ThrowingExtractors(Text(call.text))) = 1)
      => /\ call.ret.t = "return"
         /\ call.ret.value =
              [analysis |-> ContainedInfo(Text(call.text)),
               entities |-> extract_entities(call.ret.nlp, Text(call.text)),
               requirements |-> extract_requirements(Text(call.text))]

\* C10: when the self.nlp(text) call of an analysis throws, the analyze_text
\* call ends with that exception: it returns no result, holds none, and has
\* sent no write to the cache; the handler answers success = false.
C10_ModelFailureFails ==
  \A call \in Calls :
    call.model = "raise"
      => /\ call.pc = "done"
         /\ call.ret = Raise("model")
         /\ call.result = NoResult
         /\ call.write = "none"
         /\ ~MLAnalysisResponse(call).success

\* The model threw in a call that had missed the cache.
C10_Witness ==
  \E call \in Calls :
    /\ call.model = "raise" /\ call.lookup \in {"absent", "expired"}
    /\ Finished(call)

(***************************************************************************)
(* Properties of the extraction passes.                                    *)
(***************************************************************************)
\* The header fields found by ordered pattern lists: the text field holding
\* the captures and the key of the result.
PatternFields ==
  { [caps |-> "organizacao", key |-> "organizacao_licitante"],
    [caps |-> "numero_processo", key |-> "numero_processo"],
    [caps |-> "data_abertura", key |-> "data_abertura_propostas"],
    [caps |-> "data_sessao", key |-> "data_sessao_publica"],
    [caps |-> "objeto", key |-> "objeto_licitacao"],
    [caps |-> "valor_estimado", key |-> "valor_estimado"] }

\* The extractor keeps the capture: it is long enough once trimmed, the date
\* parser answers a date for it, it parses as a decimal.
Accepted(f, cap) ==
  CASE f = "organizacao" -> Len(Strip(cap.s)) > 3
    [] f = "numero_processo" -> TRUE
    [] f \in {"data_abertura", "data_sessao"} -> dateparser_parse(cap) # PyNone
    [] f = "objeto" -> Len(Strip(cap.s)) > 10
    [] f = "valor_estimado" -> DecimalParses(NormalizeValor(cap.s))

\* What the extractor returns for a capture.
ValueOf(f, cap) ==
  CASE f \in {"organizacao", "objeto"} -> PyStr(Strip(cap.s))
    [] f = "numero_processo" -> PyStr(cap.s)
    [] f \in {"data_abertura", "data_sessao"} -> dateparser_parse(cap)
    [] f = "valor_estimado" ->
         IF DecimalParses(NormalizeValor(cap.s))
         THEN DecimalOf(NormalizeValor(cap.s)) ELSE PyNone

HeaderReturned == probe.t = "basic_info" /\ probe.ret.t = "return"

Matching(caps) == {i \in DOMAIN caps : caps[i] # NoMatch}

\* C11 (as amended): every ordered-pattern extractor returns the capture of
\* the earliest-listed pattern whose capture it accepts; a later pattern's
\* capture is returned only when every earlier-listed matching pattern's
\* capture was rejected, and the field is absent when none is accepted.
C11_FirstAccepted ==
  HeaderReturned =>
    \A f \in PatternFields :
      LET caps == probe.text[f.caps]
          out == probe.ret.value[f.key]
          good == {i \in Matching(caps) : Accepted(f.caps, caps[i])}
      IN IF good = {} THEN out = PyNone
         ELSE \E i \in good : /\ \A j \in good : i <= j
                              /\ out = ValueOf(f.caps, caps[i])

\* C11 (as stated): whenever two patterns of a field match, the capture of
\* the earlier-listed one is returned.
C11_FirstMatch ==
  HeaderReturned =>
    \A f \in PatternFields :
      LET caps == probe.text[f.caps]
          out == probe.ret.value[f.key]
      IN Cardinality(Matching(caps)) >= 2
           => \E i \in Matching(caps) : /\ \A j \in Matching(caps) : i <= j
                                        /\ out = PyStr(Strip(caps[i].s))
                                           \/ out = ValueOf(f.caps, caps[i])

\* Two organization patterns match, the first one's capture ("Itu") is too
\* short, and the later one's capture is what the extractor returned.
C11_Witness ==
  /\ HeaderReturned
  /\ Cardinality(Matching(probe.text.organizacao)) >= 2
  /\ probe.text.organizacao[1] # NoMatch
  /\ ~Accepted("organizacao", probe.text.organizacao[1])
  /\ probe.text.organizacao[4] # NoMatch
  /\ probe.ret.value.organizacao_licitante = PyStr(Strip(probe.text.organizacao[4].s))

\* C12: bidding-object length bound.  A capture shorter than 10 characters
\* once trimmed is discarded, one of 10 characters or more is returned: the
\* field holds the earliest-listed capture of 10 trimmed characters or more,
\* and is absent when there is none.
C12_ObjetoBound ==
  HeaderReturned =>
    LET caps == probe.text.objeto
        out == probe.ret.value.objeto_licitacao
        good == {i \in Matching(caps) : Len(Strip(caps[i].s)) >= 10}
    IN IF good = {} THEN out = PyNone
       ELSE \E i \in good : /\ \A j \in good : i <= j
                            /\ out = PyStr(Strip(caps[i].s))

\* C13: entity offsets.  Every entity _extract_entities returns, as returned
\* and as read back from a json round trip, has integer offsets with
\* 0 <= start <= end <= length of the input text, and they are the offsets
\* of a span of that text with the entity's label and value.
C13_EntityOffsets ==
  (probe.t = "entities" /\ probe.ret.t = "return") =>
    \A es \in {probe.ret.value, probe.ret.cached} :
      \A i \in DOMAIN es :
        /\ es[i].start_position.t = "int" /\ es[i].end_position.t = "int"
        /\ 0 <= es[i].start_position.n
        /\ es[i].start_position.n <= es[i].end_position.n
        /\ es[i].end_position.n <= probe.text.length
        /\ \E k \in DOMAIN probe.text.ents :
             /\ probe.text.ents[k].start_char = es[i].start_position.n
             /\ probe.text.ents[k].end_char = es[i].end_position.n
             /\ PyStr(probe.text.ents[k].label) = es[i].entity_type
             /\ PyStr(probe.text.ents[k].text) = es[i].entity_value

\* Entities were returned for a text longer than MAX_TEXT_LENGTH, one of
\* them ending at the cut.
C13_Witness ==
  /\ probe.t = "entities" /\ probe.ret.t = "return"
  /\ probe.text.length > MAX_TEXT_LENGTH
  /\ Len(probe.ret.value) >= 2
  /\ Len(probe.ret.cached) = Len(probe.ret.value)
  /\ \E i \in DOMAIN probe.ret.value :
       probe.ret.value[i].end_position = PyInt(MAX_TEXT_LENGTH)

(***************************************************************************)
(* Properties of the service (continued).                                  *)
(***************************************************************************)
\* C14: with ENABLE_CACHE false initialize opens no connection, no call
\* sends a GET or a SETEX or is served from the cache, every returned result
\* is the one computed by that call, and the keyspace holds nothing but what
\* it held at start.
C14_CacheDisabled ==
  ~settings.ENABLE_CACHE =>
    /\ redis_client = "None"
    /\ \A k \in CacheKeys :
         \/ cache[k] = EmptyKeyspace[k]
         \/ /\ LeftoverKeyspace[k] # NoEntry
            /\ cache[k] = [LeftoverKeyspace[k] EXCEPT !.ttl = cache[k].ttl]
            /\ cache[k].ttl <= LeftoverKeyspace[k].ttl
    /\ \A call \in Calls :
         /\ call.lookup = "none" /\ call.got = NoValue /\ call.write = "none"
         /\ Returned(call)
              => /\ call.ret.via = "nocache" /\ call.extracted
                 /\ call.ret.value = AnalysisResult(call.ret.nlp, Text(call.text))

\* Caching is off, the keyspace holds a live entry for a text, and a call
\* for that text has returned a result it computed.
C14_Witness ==
  /\ ~settings.ENABLE_CACHE /\ startup = "ok"
  /\ \E call \in Calls :
       /\ Returned(call) /\ call.extracted
       /\ RedisLive(cache, KeyOf(call))

\* C15: get_status() returns in every analyzer state: it reports the model
\* loaded exactly when self.nlp is set and the cache connected exactly when
\* a client exists and answered the ping; a failed ping is reported as not
\* connected.
C15_StatusNeverFails ==
  probe.t = "status" =>
    /\ probe.ret.t = "return"
    /\ probe.ret.value.spacy_model_loaded = (probe.nlp # "None")
    /\ probe.ret.value.redis_connected =
         (probe.redis_client # "None" /\ probe.ping = "pong")
    /\ probe.redis_client = "None" => probe.ping = "not_sent"

\* The status was asked with a client whose ping failed.
C15_Witness ==
  /\ probe.t = "status" /\ probe.redis_client = "client" /\ probe.ping = "error"
  /\ probe.ret.t = "return" /\ ~probe.ret.value.redis_connected
  /\ probe.ret.value.spacy_model_loaded

\* No pattern of any header field matches the text and no keyword of the
\* modality and criterion tables occurs in it.
NothingMatches(text) ==
  /\ \A f \in PatternFields : Matching(text[f.caps]) = {}
  /\ \A i \in DOMAIN modalities : modalities[i][1] \notin text.lower_contains
  /\ \A i \in DOMAIN criteria : criteria[i][1] \notin text.lower_contains

\* C16: absence is not an error.  On a text in which nothing matches,
\* _extract_basic_info returns, and all eight fields of the header are None.
C16_AbsenceNotError ==
  (probe.t = "basic_info" /\ NothingMatches(probe.text)) =>
    /\ probe.ret.t = "return"
    /\ DOMAIN probe.ret.value = HeaderFields
    /\ \A k \in HeaderFields : probe.ret.value[k] = PyNone

\* The header of a non-empty text in which nothing matches was extracted.
C16_Witness ==
  /\ probe.t = "basic_info" /\ NothingMatches(probe.text)
  /\ probe.text.length > 0 /\ ~probe.text.blank
  /\ probe.ret.t = "return"

\* The number a sequence of digits denotes.
DigitVal(c) == CHOOSE n \in 0..9 : DigitChars[n + 1] = c
RECURSIVE IntVal(_)
IntVal(ds) ==
  IF ds = <<>> THEN 0
  ELSE IntVal(SubSeq(ds, 1, Len(ds) - 1)) * 10 + DigitVal(ds[Len(ds)])

SepIndex(s, sep) == IF \E i \in DOMAIN s : s[i] = sep
                    THEN CHOOSE i \in DOMAIN s : s[i] = sep /\ \A j \in 1..(i - 1) : s[j] # sep
                    ELSE Len(s) + 1

\* A numeral with "." between groups of three digits and, optionally, ","
\* before the decimals.
IsBrNumeral(s) ==
  LET k == SepIndex(s, ",")
      ip == SubSeq(s, 1, k - 1)
      fp == SubSeq(s, k + 1, Len(s))
  IN /\ ip # <<>>
     /\ \A i \in DOMAIN ip : IF (Len(ip) - i + 1) % 4 = 0 THEN ip[i] = "."
                                                         ELSE ip[i] \in Digits
     /\ \A i \in DOMAIN fp : fp[i] \in Digits
     /\ k <= Len(s) => fp # <<>>

\* Its value: the units, and the decimals as written.
BrNumeralValue(s) ==
  LET k == SepIndex(s, ",")
  IN [units |-> IntVal(SelectSeq(SubSeq(s, 1, k - 1), LAMBDA c : c \in Digits)),
      decimals |-> SubSeq(s, k + 1, Len(s))]

\* The value of a Decimal, from the literal str() prints.
DecimalValue(s) ==
  LET k == SepIndex(s, ".")
  IN [units |-> IntVal(SubSeq(s, 1, k - 1)), decimals |-> SubSeq(s, k + 1, Len(s))]

\* C17: estimated-value normalization.  When the first pattern captures a
\* numeral with "." as thousands separator and "," as decimal separator, the
\* extractor returns a Decimal without separators other than one decimal
\* point, whose value is the numeral's; "1.500,00" gives Decimal("1500.00").
C17_ValorNormalized ==
  (HeaderReturned /\ probe.text.valor_estimado[1] # NoMatch
                  /\ IsBrNumeral(probe.text.valor_estimado[1].s)) =>
    LET cap == probe.text.valor_estimado[1].s
        out == probe.ret.value.valor_estimado
    IN /\ out.t = "Decimal"
       /\ \A i \in DOMAIN out.s : out.s[i] \in Digits \cup {"."}
       /\ CountChar(out.s, ".") <= 1
       /\ DecimalValue(out.s) = BrNumeralValue(cap)
       /\ cap = <<"1", ".", "5", "0", "0", ",", "0", "0">>
            => out = PyDecimal(<<"1", "5", "0", "0", ".", "0", "0">>)

\* A numeral with two thousands separators was captured and its value
\* returned.
C17_Witness ==
  /\ HeaderReturned
  /\ probe.text.valor_estimado[1] # NoMatch
  /\ IsBrNumeral(probe.text.valor_estimado[1].s)
  /\ CountChar(probe.text.valor_estimado[1].s, ".") = 2
  /\ probe.ret.value.valor_estimado =
       PyDecimal(<<"1", "2", "3", "4", "5", "6", "7", "8", ".", "9", "0">>)

Missed(call) == call.lookup \in {"absent", "expired"}
ExtractionFailed(call) == call.ret \in {Raise("extractor"), Raise("model")}

\* What the calls have done: a SETEX is sent by the calls that missed the
\* cache and completed the extraction, and by no other; a call that hit the
\* cache, whose lookup failed or whose extraction failed sends none.
C18_Calls ==
  \A call \in Calls :
    /\ call.write # "none"
         => /\ Missed(call) /\ call.extracted /\ call.model = "ok"
            /\ ~ExtractionFailed(call)
            /\ call.pc # "done" => call.result = AnalysisResult(nlp, Text(call.text))
    /\ (Missed(call) /\ call.extracted /\ ~ExtractionFailed(call) /\ call.pc # "blocked")
         => call.write # "none"
    /\ call.lookup \in {"hit", "error"} => (call.write = "none" /\ ~call.extracted)
    /\ ExtractionFailed(call) => call.write = "none"

\* What a step does to the keyspace: an entry is never removed; an entry
\* changes only by its time-to-live running down, or by the SETEX of a call
\* that missed and completed the extraction, which stores that call's
\* serialized result for CACHE_TTL seconds.
C18_Step ==
  \A k \in CacheKeys :
    /\ cache[k] # NoEntry => cache'[k] # NoEntry
    /\ cache'[k] # cache[k]
         => \/ /\ cache[k] # NoEntry
               /\ cache'[k] = [cache[k] EXCEPT !.ttl = cache'[k].ttl]
               /\ cache'[k].ttl < cache[k].ttl
               /\ calls' = calls
            \/ \E call \in Calls :
                 /\ call.pc = "await_setex" /\ KeyOf(call) = k
                 /\ Missed(call) /\ call.extracted
                 /\ calls' = Replace(call, [call EXCEPT !.pc = "set", !.write = "ok"])
                 /\ cache'[k] = [t |-> "entry", value |-> json_dumps(call.result),
                                 expires |-> TRUE, ttl |-> CACHE_TTL]

\* C18: cache entry lifecycle.  A call writes an entry exactly when its
\* lookup missed and its extraction completed; a hit writes nothing and
\* leaves the entry's expiry as it is; a failed analysis writes nothing; no
\* step removes an entry.
C18_Lifecycle == []C18_Calls /\ [][C18_Step]_vars

\* A call was served from an entry part of whose time-to-live had run down,
\* and the entry has not been renewed.
C18_Witness ==
  \E call \in Calls :
    /\ Returned(call) /\ call.ret.via = "hit"
    /\ cache[KeyOf(call)].ttl > 0
    /\ cache[KeyOf(call)].ttl < CACHE_TTL

\* C19: stage ordering inside analyze_text.  While the lookup is pending,
\* and after a hit or a failed lookup, no extraction pass has run; a SETEX is
\* sent only by a call that holds the output of all three passes; and a call
\* that returns after its write returns the result whose serialization the
\* entry holds.
C19_StageOrder ==
  \A call \in Calls :
    /\ call.lookup \in {"sent", "hit", "error"}
         => (~call.extracted /\ call.model = "none" /\ call.result = NoResult)
    /\ call.extracted => (call.lookup \in {"none", "absent", "expired"})
    /\ call.write # "none"
         => /\ call.extracted
            /\ DOMAIN call.result = {"analysis", "entities", "requirements"}
            /\ call.result = AnalysisResult(nlp, Text(call.text))
    /\ (Returned(call) /\ call.ret.via = "miss")
         => /\ call.write = "ok"
            /\ call.ret.value = call.result
            /\ cache[KeyOf(call)] # NoEntry
            /\ cache[KeyOf(call)].value = json_dumps(call.ret.value)

\* One call has returned after missing, extracting and writing; another,
\* for the same text, has returned from the entry without extracting.
C19_Witness ==
  \E a, b \in Calls :
    /\ a.text = b.text
    /\ Returned(a) /\ a.ret.via = "miss" /\ a.extracted /\ a.write = "ok"
    /\ Returned(b) /\ b.ret.via = "hit" /\ ~b.extracted /\ b.write = "none"

\* Every entry of the keyspace is the complete serialization of the result
\* of analysing the text of its key.
EntriesComplete ==
  \A text \in Texts :
    cache[get_cache_key(text)] # NoEntry
      => cache[get_cache_key(text)].value = json_dumps(AnalysisResult("ruled", text))

\* Two calls for the same text are being served through the cache.
Concurrent(a, b) ==
  /\ a.text = b.text
  /\ a.lookup # "none" /\ b.lookup # "none"
  /\ a # b \/ CopiesIn(a, calls) >= 2

\* C20: concurrent analyses of the same text.  Whatever the interleaving of
\* two calls for a text with caching on, a call that returns, returns the
\* result of analysing the text, and the entry of the text is one complete
\* serialized result.
C20_ConcurrentSameText ==
  \A a, b \in Calls :
    Concurrent(a, b)
      => /\ Returned(a) => a.ret.value = AnalysisResult(a.ret.nlp, Text(a.text))
         /\ EntriesComplete

(***************************************************************************)
(* C21                                                                     *)
(***************************************************************************)
\* The canonical value of the first entry of a keyword table whose keyword
\* the lower-cased text contains; None when it contains none of them.
FirstInTable(table, contained) ==
  IF \E i \in DOMAIN table : table[i][1] \in contained
  THEN LET i == CHOOSE k \in DOMAIN table :
                  /\ table[k][1] \in contained
                  /\ \A j \in 1..(k - 1) : table[j][1] \notin contained
       IN PyStr(table[i][2])
  ELSE PyNone

\* C21: the modality and the judgment criterion _extract_basic_info returns
\* are the canonical values of the first entries, in table order, of the
\* modality and criterion tables whose keywords the lower-cased text
\* contains, whatever the order in which the keywords occur in the text.
C21_TableOrder ==
  HeaderReturned =>
    /\ probe.ret.value.modalidade_licitacao
         = FirstInTable(modalities, probe.text.lower_contains)
    /\ probe.ret.value.criterio_julgamento
         = FirstInTable(criteria, probe.text.lower_contains)

\* A text where "concorrência" occurs before "pregão eletrônico" and
\* "técnica e preço" could not also be listed: the earlier table entry wins.
C21_Witness ==
  /\ HeaderReturned
  /\ probe.text.lower_order = <<"concorrência", "pregão eletrônico">>
  /\ probe.ret.value.modalidade_licitacao = PyStr("Pregão Eletrônico")

(***************************************************************************)
(* C22                                                                     *)
(***************************************************************************)
RequirementsReturned == probe.t = "requirements" /\ probe.ret.t = "return"

\* The tag of the first vocabulary phrase, in declared order, that the
\* lower-cased description contains; None when it contains none.
FirstPhraseTag(description) ==
  LET hits == {k \in DOMAIN DocumentTypePhrases :
                 Contains(Lower(description), DocumentTypePhrases[k])}
  IN IF hits = {} THEN PyNone
     ELSE PyStr(load_document_types[CHOOSE k \in hits : \A j \in hits : k <= j][2])

\* C22: every requirement _extract_requirements returns carries the
\* document-type tag of the first vocabulary phrase, in declared order,
\* contained in its lower-cased description, and no tag (None) exactly when
\* the description contains no vocabulary phrase.
C22_FirstPhrase ==
  RequirementsReturned =>
    \A i \in DOMAIN probe.ret.value :
      LET r == probe.ret.value[i]
      IN /\ r.document_type = FirstPhraseTag(r.description.s)
         /\ (r.document_type = PyNone <=> VocabOf(Lower(r.description.s)) = {})

\* "Certidão negativa de débitos trabalhistas e Crf": the shorter phrase,
\* declared earlier and standing later in the text, gives the tag.
C22_Witness ==
  /\ RequirementsReturned
  /\ Len(probe.ret.value) = 1
  /\ VocabOf(Lower(probe.ret.value[1].description.s))
       = {"crf", "certidão negativa de débitos trabalhistas"}
  /\ probe.ret.value[1].document_type = PyStr("CERTIDAO_FGTS")

(***************************************************************************)
(* C23                                                                     *)
(***************************************************************************)
\* The estimated-value patterns that match and whose numeral, normalized,
\* is a decimal literal.
ParsablePatterns(text) ==
  {i \in DOMAIN text.valor_estimado :
     /\ text.valor_estimado[i] # NoMatch
     /\ DecimalParses(NormalizeValor(text.valor_estimado[i].s))}

UnparsablePatterns(text) ==
  {i \in DOMAIN text.valor_estimado :
     /\ text.valor_estimado[i] # NoMatch
     /\ ~DecimalParses(NormalizeValor(text.valor_estimado[i].s))}

\* C23: a captured estimated-value numeral that does not parse as a decimal
\* after normalization makes the extraction raise nothing; its pattern is
\* skipped and the value comes from the first later pattern, in order, whose
\* numeral parses; the field is None only when no pattern yields a parsable
\* numeral.
C23_ValorFallback ==
  (probe.t = "basic_info" /\ ~BasicInfoRaises(probe.text)) =>
    LET ok == ParsablePatterns(probe.text)
    IN /\ probe.ret.t = "return"
       /\ ok = {} <=> probe.ret.value.valor_estimado = PyNone
       /\ ok # {} =>
            LET i == CHOOSE k \in ok : \A j \in ok : k <= j
            IN probe.ret.value.valor_estimado
                 = DecimalOf(NormalizeValor(probe.text.valor_estimado[i].s))

\* The first two patterns captured numerals that do not parse, the third
\* one that does, and its value was returned.
C23_Witness ==
  /\ HeaderReturned
  /\ UnparsablePatterns(probe.text) = {1, 2}
  /\ ParsablePatterns(probe.text) = {3}
  /\ probe.ret.value.valor_estimado = PyDecimal(<<"9", ".", "0", "0">>)

(***************************************************************************)
(* C24                                                                     *)
(***************************************************************************)
\* What analyze_text is to compute for a text: the header fields and the
\* requirements of the whole text, the entities of its first
\* MAX_TEXT_LENGTH characters.
ScopedResult(n, text) ==
  [analysis |-> extract_basic_info(text),
   entities |-> extract_entities(n, Prefix(text, MAX_TEXT_LENGTH)),
   requirements |-> extract_requirements(text)]

IsLong(text) == text.length > MAX_TEXT_LENGTH

\* C24: a text longer than MAX_TEXT_LENGTH is analyzed, not rejected: a call
\* on it fails only when the model call or a Redis command fails.  The
\* result it computes holds the header fields and requirements of the whole
\* text and the entities of the first MAX_TEXT_LENGTH characters, each ending
\* at offset MAX_TEXT_LENGTH at most; and the cache entry under the key of
\* the whole text, and no other, holds that result.
C24_TruncationScope ==
  /\ \A call \in Calls :
       IsLong(Text(call.text)) =>
         /\ call.ret # NotCalled
         /\ call.ret.t = "raise"
              => call.ret \in {Raise("model"), Raise("cache_get"), Raise("cache_setex")}
         /\ (Returned(call) /\ call.ret.via \in {"miss", "nocache"})
              => /\ call.ret.value = ScopedResult(call.ret.nlp, Text(call.text))
                 /\ \A i \in DOMAIN call.ret.value.entities :
                      call.ret.value.entities[i].end_position.n <= MAX_TEXT_LENGTH
  /\ cache[get_cache_key(TextLong)] # NoEntry
       => \E n \in {"None", "model", "ruled"} :
            cache[get_cache_key(TextLong)].value = json_dumps(ScopedResult(n, TextLong))
  /\ cache[get_cache_key(Prefix(TextLong, MAX_TEXT_LENGTH))] = NoEntry

\* A call on the long text missed the cache and returned the estimated value
\* and the requirement written after character MAX_TEXT_LENGTH, the two
\* allowed entities before it and not the person named after it; the result
\* is stored under the key of the whole text and nothing under the key of
\* its first MAX_TEXT_LENGTH characters.
C24_Witness ==
  \E call \in Calls :
    /\ call.text = TextLong.id /\ Returned(call) /\ call.ret.via = "miss"
    /\ call.ret.value.analysis.valor_estimado
         = PyDecimal(<<"8", "0", "0", "0", "0", ".", "0", "0">>)
    /\ extract_basic_info(Prefix(TextLong, MAX_TEXT_LENGTH)).valor_estimado = PyNone
    /\ Len(call.ret.value.requirements) = 1
    /\ Len(call.ret.value.entities) = 2
    /\ call.ret.value.entities[2].end_position = PyInt(MAX_TEXT_LENGTH)
    /\ RedisLive(cache, get_cache_key(TextLong))
    /\ cache[get_cache_key(Prefix(TextLong, MAX_TEXT_LENGTH))] = NoEntry

(***************************************************************************)
(* C25                                                                     *)
(***************************************************************************)
EntitiesReturned == probe.t = "entities" /\ probe.ret.t = "return"

\* The spans the model produced on the text as _extract_entities gave it.
ProducedSpans == DocEnts(probe.nlp, Prefix(probe.text, MAX_TEXT_LENGTH))

AllowedLabels == {"PERSON", "ORG", "GPE", "MONEY", "DATE"}

\* C25: every entity _extract_entities returns has one of the five labels
\* PERSON, ORG, GPE, MONEY, DATE; the entities returned are the spans the
\* model produced with one of these labels, one entity per span and in the
\* order of production; spans with any other label (those of the entity
\* ruler, MODALIDADE and CRITERIO, among them) are left out and raise
\* nothing.
C25_AllowList ==
  (probe.t = "entities" /\ probe.ret # Raise("model")) =>
    /\ probe.ret.t = "return"
    /\ \A i \in DOMAIN probe.ret.value :
         \E l \in AllowedLabels : probe.ret.value[i].entity_type = PyStr(l)
    /\ probe.nlp # "None" =>
         LET kept == SelectSeq(ProducedSpans, LAMBDA e : e.label \in AllowedLabels)
         IN /\ Len(probe.ret.value) = Len(kept)
            /\ \A i \in DOMAIN kept :
                 /\ probe.ret.value[i].entity_type = PyStr(kept[i].label)
                 /\ probe.ret.value[i].entity_value = PyStr(kept[i].text)
                 /\ probe.ret.value[i].start_position = PyInt(kept[i].start_char)
                 /\ probe.ret.value[i].end_position = PyInt(kept[i].end_char)

\* The ruled pipeline produced eight spans, one of them labelled by the
\* entity ruler and two with labels of the Portuguese model; the five
\* allowed ones were returned in their order.
C25_Witness ==
  /\ EntitiesReturned /\ probe.nlp = "ruled"
  /\ Len(ProducedSpans) = 8
  /\ \E k \in DOMAIN ProducedSpans : ProducedSpans[k].label \in RulerLabels
  /\ [i \in DOMAIN probe.ret.value |-> probe.ret.value[i].entity_type]
       = <<PyStr("ORG"), PyStr("GPE"), PyStr("MONEY"), PyStr("DATE"), PyStr("PERSON")>>

(***************************************************************************)
(* C26                                                                     *)
(***************************************************************************)
AllMandatory(requirements) ==
  \A i \in DOMAIN requirements : requirements[i].is_mandatory = PyBool(TRUE)

\* C26: every requirement of every result analyze_text returns, computed by
\* the call or read back from the cache, has is_mandatory = True, and so has
\* every requirement of every result held in the cache.
C26_AllMandatory ==
  /\ \A call \in Calls :
       Returned(call) => AllMandatory(call.ret.value.requirements)
  /\ \A k \in CacheKeys :
       cache[k] # NoEntry => AllMandatory(json_loads(cache[k].value).requirements)

\* Two calls returned the two requirements of a text, one having computed
\* them and one having read them from the cache; one of the requirements has
\* no document type.
C26_Witness ==
  \E a, b \in Calls :
    /\ Returned(a) /\ a.ret.via = "miss"
    /\ Returned(b) /\ b.ret.via = "hit"
    /\ Len(a.ret.value.requirements) = 2 /\ Len(b.ret.value.requirements) = 2
    /\ b.ret.value.requirements[2].document_type = PyNone

(***************************************************************************)
(* C27                                                                     *)
(***************************************************************************)
\* The call computed a result through the shortcut of _extract_entities: no
\* model, no entities.
TookShortcut(call) ==
  /\ call.model = "none"
  /\ call.result # NoResult \/ (Returned(call) /\ call.ret.via # "hit")

\* C27: whenever the analyzer holds a cache client it holds a loaded model;
\* hence a call that sends a result to the cache has called the model, and a
\* result whose entity list is empty because the model is missing is never
\* sent.
C27_ClientImpliesModel ==
  /\ redis_client # "None" => nlp # "None"
  /\ \A call \in Calls :
       /\ call.write # "none" => call.model = "ok"
       /\ TookShortcut(call) => (call.write = "none" /\ call.lookup = "none")

\* One call computed its result without a model before initialize() had run
\* and returned it uncached; after initialize() another call computed its
\* result with the model and stored it.
C27_Witness ==
  /\ redis_client # "None"
  /\ \E a, b \in Calls :
       /\ TookShortcut(a) /\ Returned(a) /\ a.ret.value.entities = <<>>
       /\ b.model = "ok" /\ b.write = "ok" /\ Returned(b)

(***************************************************************************)
(* C28                                                                     *)
(***************************************************************************)
\* C28: after an initialize() that raised, the analyzer is as __init__ left
\* it (no model, no cache client), and get_status() reports
\* spacy_model_loaded = False and redis_connected = False.
C28_FailedInitializeRollsBack ==
  startup = "failed" =>
    /\ nlp = "None" /\ redis_client = "None"
    /\ (probe.t = "status" /\ probe.startup = "failed")
         => /\ probe.ret.value.spacy_model_loaded = FALSE
            /\ probe.ret.value.redis_connected = FALSE

(***************************************************************************)
(* C29                                                                     *)
(***************************************************************************)
\* The analysis status of the edital row, "None" before the upload.
StatusOf(db) == IF db.edital = NoEdital THEN "None" ELSE db.edital.analysis_status

\* The step takes the run from where it is to pc.
Moved(run, pc) ==
  /\ run.pc # pc
  /\ \E next \in BagToSet(tasks') : next.pc = pc /\ tasks' = ReplaceRun(run, next)

\* The rows of the response are among the stored rows.
Saved(db, ml_response) ==
  \E i \in DOMAIN db.edital_analyses : db.edital_analyses[i] = ml_response.analysis

\* C29: every run of process_edital_analysis moves the status of the edital
\* to PROCESSING and ends with the status COMPLETED or FAILED, never leaving
\* it at PENDING or PROCESSING; the status becomes COMPLETED only in the step
\* of a run whose ML response reported success and whose results are saved;
\* every failure ends with the status FAILED and the error message recorded.
C29_StatusLifecycle ==
  [][/\ \A run \in Runs :
          /\ (run.pc = "loaded" /\ Moved(run, "extract"))
               => StatusOf(database') = "PROCESSING"
          /\ Moved(run, "email")
               => /\ StatusOf(database') = "COMPLETED"
                  /\ run.response.success
                  /\ Saved(database', run.response)
          /\ (run.pc = "handler" /\ Moved(run, "done"))
               => /\ StatusOf(database') = "FAILED"
                  /\ database'.edital.error_message = run.exc
                  /\ run.exc # "None"
          /\ ~Moved(run, "crashed")
     /\ (StatusOf(database') = "COMPLETED" /\ StatusOf(database) # "COMPLETED")
          => \E run \in Runs : Moved(run, "email")
     /\ (Runs' # {} /\ \A run \in Runs' : run.pc \in {"done", "crashed"})
          => StatusOf(database') \in {"COMPLETED", "FAILED"}]_vars

(***************************************************************************)
(* C30                                                                     *)
(***************************************************************************)
\* The rows save_analysis_results adds for a response, and nothing else.
RowsOf(ml_response) ==
  [edital_analyses |-> <<ml_response.analysis>>,
   extracted_entities |-> ml_response.entities,
   habilitacao_requirements |-> ml_response.requirements]

\* C30: after save_analysis_results(edital, R) has succeeded the stored
\* analysis, entities and requirements of the edital are exactly those of R:
\* one analysis record and one copy of each entity and requirement, however
\* many times the edital has been analysed.
C30_SaveReplaces ==
  [][\A run \in Runs :
       (run.pc = "save" /\ Moved(run, "complete"))
         => /\ database'.edital_analyses = RowsOf(run.response).edital_analyses
            /\ database'.extracted_entities = RowsOf(run.response).extracted_entities
            /\ database'.habilitacao_requirements
                 = RowsOf(run.response).habilitacao_requirements]_vars

====
